---- MODULE Spec2Model ----
(***************************************************************************)
(* Neko Drive server: the metadata index (files and chunks tables), the    *)
(* upload engine (init, chunk, finalize, abort, purge), the files routes   *)
(* (restore, delete, empty trash) and the bulk deletes of external messages *)
(* that the handlers schedule.                                             *)
(***************************************************************************)
EXTENDS Integers, Sequences, FiniteSets, TLC

\* ------------------------------------------------------------------ bounds
NumReqs == 2        \* chunk-upload requests issued in one behaviour
MaxBody == 1        \* largest request body, in bytes
MaxSize == 1        \* largest size announced at init
MaxChunkNo == 2     \* largest X-Chunk-Number header value
MaxStart == 1       \* largest Content-Range start value
MaxChunks == 2      \* most chunk rows of a file that is streamed
MaxChunkSize == 2   \* largest size of such a chunk row
MaxPos == 4         \* largest byte position named in a Range header
MaxTotal == 3
NumRuns == 2                            \* backupDatabase runs at a time
MaxBackups == 3                         \* backupDatabase runs in all
MaxRequests == 3                        \* requests through the /api middleware
MaxCreated == 2                         \* created_at values, in seconds
MaxPage == 2                            \* limit and offset parameters       \* most chunks of a file the client uploads

\* ------------------------------------------------------------ input domains
FileIds == {"a", "b"}
Names == {"", "n"}                      \* "" is a missing name
Sizes == 0..MaxSize
Reqs == 1..NumReqs
NoHeader == -1                          \* header not sent
NoMatch == -2                           \* Content-Range that is not "bytes a-b/c"
ChunkHeaders == {NoHeader} \cup (1..MaxChunkNo)
ContentRanges == {NoHeader} \cup (0..MaxStart)
BodyLens == 0..MaxBody
NoMsg == 0                              \* no external message

VARIABLES
  foreignKeys,   \* whether the SQLite connection enforces FOREIGN KEY clauses
  files,         \* files table: id -> row (status "absent" = no row)
  chunks,        \* chunks table: rows in rowid (insertion) order
  scheduled,     \* id lists handed to bulkDeleteFromDiscord so far
  reqs,          \* chunk-upload requests: position and response
  nextMsg,       \* next message id the external store hands out
  last,          \* response of the last single-step handler
  env,           \* process.env: the channel variables the routes read and write
  stream,        \* the range-stream request in progress
  download,      \* the full-file download in progress
  client,        \* the browser's processUpload run
  bulk,          \* a running bulkDeleteFromDiscord call
  backups,       \* the backup channel and the backupDatabase runs
  auth,          \* a request on its way through the /api middleware
  listing        \* the response of GET /files

vars == <<foreignKeys, files, chunks, scheduled, reqs, nextMsg, last,
          env, stream, download, client, bulk,
         backups, auth, listing>>

\* what the upload and files routes never touch
others == <<env, stream, download, client, bulk, backups, auth, listing>>

\* ------------------------------------------------------------------ helpers
\* process.env as deployed: DISCORD_CHANNEL_ID and DISCORD_BACKUP_CHANNEL_ID
\* ("" = not set)
Env(backup) == [channel |-> "primary", backup |-> backup]

\* no range stream, download, client run or bulk delete in progress
NoStream == [pc |-> "idle"]
NoDownload == [pc |-> "idle"]
NoClient == [pc |-> "idle"]
NoBulk == [pc |-> "idle"]
Runs == 1..NumRuns
NoRun == [pc |-> "idle", oldBackups |-> {}]
NoBackup == [channel |-> {}, nextId |-> 1, started |-> 0, runs |-> [r \in Runs |-> NoRun]]
Undefined == "undefined"                \* a header, query parameter or variable not set
NoAuth == [API_SECRET |-> Undefined, header |-> Undefined, token |-> Undefined, code |-> 0, served |-> 0]
NoListing == [pc |-> "idle"]

\* a CDN url is known here by its signature only: "fresh" (ex at least five
\* minutes ahead), "soon" (ex ahead, by less than five minutes), "past" (ex
\* behind) or "noex" (no ex parameter)
FreshUrl == "fresh"

NoFile == [status |-> "absent", name |-> "", size |-> 0]

NoReq == [pc |-> "idle", fileId |-> "a", idx |-> 0, len |-> 0, code |-> 0, msg |-> NoMsg]

\* a request that has been answered: its locals are gone, its response stays
Done(q, code, msg) == [pc |-> "done", fileId |-> q.fileId, idx |-> 0, len |-> 0, code |-> code, msg |-> msg]

\* what a handler leaves behind besides the index change: the HTTP status of its
\* response and whether it started backupDatabase() in the background
Resp(code, backup) == [code |-> code, backup |-> backup]

\* SELECT ... FROM chunks WHERE file_id = ?
ChunksOf(id) == SelectSeq(chunks, LAMBDA c : c.fileId = id)

\* SELECT message_id FROM chunks WHERE file_id = ?  (.map(c => c.message_id))
MessageIdsOf(id) == [i \in DOMAIN ChunksOf(id) |-> ChunksOf(id)[i].messageId]

\* the message ids of every chunk row
MessageIdsIn_anyFile(ids) == [i \in DOMAIN chunks |-> chunks[i].messageId]

\* SELECT message_id FROM chunks WHERE file_id IN (ids)
MessageIdsIn(ids) ==
  LET rows == SelectSeq(chunks, LAMBDA c : c.fileId \in ids)
  IN  [i \in DOMAIN rows |-> rows[i].messageId]

\* DELETE FROM chunks WHERE file_id IN (ids)
DeleteChunksIn(ids) == SelectSeq(chunks, LAMBDA c : c.fileId \notin ids)

\* DELETE FROM files WHERE id IN (ids): the chunk rows follow only when the
\* connection enforces the ON DELETE CASCADE clause of the chunks table. SQLite
\* enforces foreign keys only under PRAGMA foreign_keys = ON; the connection
\* is opened with journal_mode = WAL as its only pragma, so enforcement is
\* whatever the SQLite build defaults to (off in a stock build).
CascadeChunks(ids) == IF foreignKeys THEN DeleteChunksIn(ids) ELSE chunks

DeleteFiles(ids) == [id \in FileIds |-> IF id \in ids THEN NoFile ELSE files[id]]

\* bulkDeleteFromDiscord(messageIds): returns at once on an empty list
bulkDeleteFromDiscord(messageIds) ==
  IF Len(messageIds) = 0 THEN scheduled ELSE scheduled \cup {messageIds}

\* the quotient cut off instead of rounded
Round_down(a, b) == a \div b

\* Math.round(a / b) for a >= 0, b > 0
Round(a, b) == (2 * a + b) \div (2 * b)

\* Smart Chunk Indexing
ResolveChunkIndex(chunkHeader, contentRange, fileId) ==
  LET chunk0 == SelectSeq(chunks, LAMBDA c : c.fileId = fileId /\ c.idx = 0)
  IN  IF chunkHeader # NoHeader THEN chunkHeader - 1
      ELSE IF contentRange \notin {NoHeader, NoMatch}
           THEN IF contentRange = 0 THEN 0
                ELSE IF Len(chunk0) > 0 THEN Round(contentRange, chunk0[1].size)
                     ELSE 0
           ELSE 0

\* SELECT 1 FROM files WHERE id = ? AND status = 'pending'  (before the upload)
fileExists(id) == files[id].status = "pending"

\* the recheck with its status filter forgotten
fileStillExists_anyStatus(id) == files[id].status # "absent"

\* the same query after the upload (race condition protection)
fileStillExists(id) == files[id].status = "pending"

\* -------------------------------------------------------------------- Init
Init ==
  /\ foreignKeys \in BOOLEAN
  /\ files = [id \in FileIds |-> NoFile]
  /\ chunks = <<>>
  /\ scheduled = {}
  /\ reqs = [r \in Reqs |-> NoReq]
  /\ nextMsg = 1
  /\ last = Resp(0, FALSE)
  /\ env = Env("backup")
  /\ stream = NoStream
  /\ download = NoDownload
  /\ client = NoClient
  /\ bulk = NoBulk
  /\ backups = NoBackup
  /\ auth = NoAuth
  /\ listing = NoListing

\* ------------------------------------------------------------ upload routes
\* POST /file/init
InitFile(id, name, size) ==
  /\ IF name = ""
       THEN /\ last' = Resp(400, FALSE)
            /\ UNCHANGED <<files, chunks>>
       ELSE IF files[id].status = "active"
       THEN /\ last' = Resp(409, FALSE)
            /\ UNCHANGED <<files, chunks>>
       ELSE /\ files' = [files EXCEPT ![id] = [status |-> "pending", name |-> name, size |-> size]]
            /\ chunks' = IF files[id].status # "absent" THEN CascadeChunks({id}) ELSE chunks
            /\ last' = Resp(200, FALSE)
  /\ UNCHANGED <<foreignKeys, scheduled, reqs, nextMsg>>

\* POST /file/:id/chunk, up to the read of the request body
ChunkRecv(r, id, chunkHeader, contentRange, len) ==
  /\ reqs[r].pc = "idle"
  /\ \A s \in Reqs : s < r => reqs[s].pc # "idle"      \* requests are numbered in arrival order
  /\ reqs' = [reqs EXCEPT ![r] = [pc |-> "body", fileId |-> id,
                                  idx |-> ResolveChunkIndex(chunkHeader, contentRange, id),
                                  len |-> len, code |-> 0, msg |-> NoMsg]]
  /\ UNCHANGED <<foreignKeys, files, chunks, scheduled, nextMsg, last>>

\* the handler without its idempotency check: an existing row is left in place
ChunkCheck_keepExisting(r) ==
  LET q == reqs[r]
  IN  /\ q.pc = "body"
      /\ IF q.len = 0
           THEN reqs' = [reqs EXCEPT ![r] = Done(q, 400, NoMsg)]
           ELSE IF ~fileExists(q.fileId)
           THEN reqs' = [reqs EXCEPT ![r] = Done(q, 404, NoMsg)]
           ELSE reqs' = [reqs EXCEPT ![r].pc = "uploading"]
      /\ UNCHANGED <<foreignKeys, files, chunks, scheduled, nextMsg, last>>

\* body read: validation, idempotency check, start of the external upload
ChunkCheck(r) ==
  LET q == reqs[r]
      existing == SelectSeq(chunks, LAMBDA c : c.fileId = q.fileId /\ c.idx = q.idx)
  IN  /\ q.pc = "body"
      /\ IF q.len = 0
           THEN /\ reqs' = [reqs EXCEPT ![r] = Done(q, 400, NoMsg)]
                /\ UNCHANGED <<chunks, scheduled>>
           ELSE IF ~fileExists(q.fileId)
           THEN /\ reqs' = [reqs EXCEPT ![r] = Done(q, 404, NoMsg)]
                /\ UNCHANGED <<chunks, scheduled>>
           ELSE /\ reqs' = [reqs EXCEPT ![r].pc = "uploading"]
                /\ IF Len(existing) > 0
                     THEN /\ chunks' = SelectSeq(chunks, LAMBDA c : ~(c.fileId = q.fileId /\ c.idx = q.idx))
                          /\ scheduled' = bulkDeleteFromDiscord(<<existing[1].messageId>>)
                     ELSE UNCHANGED <<chunks, scheduled>>
      /\ UNCHANGED <<foreignKeys, files, nextMsg, last>>

\* uploadToDiscord resolved: recheck, then insert or clean up
ChunkUploaded(r) ==
  LET q == reqs[r]
  IN  /\ q.pc = "uploading"
      /\ nextMsg' = nextMsg + 1
      /\ IF ~fileStillExists(q.fileId)
           THEN /\ scheduled' = bulkDeleteFromDiscord(<<nextMsg>>)
                /\ reqs' = [reqs EXCEPT ![r] = Done(q, 404, nextMsg)]
                /\ UNCHANGED chunks
           ELSE /\ chunks' = Append(chunks, [fileId |-> q.fileId, idx |-> q.idx,
                                             messageId |-> nextMsg, channelId |-> env.channel,
                                             size |-> q.len, url |-> FreshUrl])
                /\ reqs' = [reqs EXCEPT ![r] = Done(q, 200, nextMsg)]
                /\ UNCHANGED scheduled
      /\ UNCHANGED <<foreignKeys, files, last>>

\* uploadToDiscord threw (non-2xx answer, network error, cancelled request)
ChunkUploadFailed(r) ==
  /\ reqs[r].pc = "uploading"
  /\ reqs' = [reqs EXCEPT ![r] = Done(reqs[r], 500, NoMsg)]
  /\ UNCHANGED <<foreignKeys, files, chunks, scheduled, nextMsg, last>>

\* POST /file/:id/finalize
Finalize(id, skipBackup) ==
  /\ files' = [files EXCEPT ![id].status = IF files[id].status = "absent" THEN "absent" ELSE "active"]
  /\ last' = Resp(200, ~skipBackup)
  /\ UNCHANGED <<foreignKeys, chunks, scheduled, reqs, nextMsg>>

\* POST /file/:id/abort
Abort(id) ==
  /\ files' = IF files[id].status = "pending" THEN DeleteFiles({id}) ELSE files
  /\ chunks' = IF files[id].status = "pending" THEN CascadeChunks({id}) ELSE chunks
  /\ scheduled' = bulkDeleteFromDiscord(MessageIdsOf(id))
  /\ last' = Resp(200, FALSE)
  /\ UNCHANGED <<foreignKeys, reqs, nextMsg>>

\* DELETE /file/pending/all
PurgePending ==
  LET pending == {id \in FileIds : files[id].status = "pending"}
  IN  /\ chunks' = DeleteChunksIn(pending)
      /\ files' = DeleteFiles(pending)
      /\ scheduled' = bulkDeleteFromDiscord(MessageIdsIn(pending))
      /\ last' = Resp(200, FALSE)
      /\ UNCHANGED <<foreignKeys, reqs, nextMsg>>

\* ------------------------------------------------------------- files routes
\* POST /:id/restore
Restore(id) ==
  /\ IF files[id].status = "absent"
       THEN /\ last' = Resp(404, FALSE)
            /\ UNCHANGED files
       ELSE IF files[id].status # "trashed"
       THEN /\ last' = Resp(400, FALSE)
            /\ UNCHANGED files
       ELSE /\ files' = [files EXCEPT ![id].status = "active"]
            /\ last' = Resp(200, TRUE)
  /\ UNCHANGED <<foreignKeys, chunks, scheduled, reqs, nextMsg>>

\* DELETE /trash
EmptyTrash ==
  LET ids == {id \in FileIds : files[id].status = "trashed"}
  IN  /\ IF ids = {}
           THEN /\ last' = Resp(200, FALSE)
                /\ UNCHANGED <<files, chunks, scheduled>>
           ELSE /\ files' = DeleteFiles(ids)
                /\ chunks' = DeleteChunksIn(ids)
                /\ scheduled' = bulkDeleteFromDiscord(MessageIdsIn(ids))
                /\ last' = Resp(200, TRUE)
      /\ UNCHANGED <<foreignKeys, reqs, nextMsg>>

\* DELETE /:id
Delete(id) ==
  /\ IF files[id].status = "absent"
       THEN /\ last' = Resp(404, FALSE)
            /\ UNCHANGED <<files, chunks, scheduled>>
       ELSE IF files[id].status = "active"
       THEN /\ files' = [files EXCEPT ![id].status = "trashed"]
            /\ last' = Resp(200, TRUE)
            /\ UNCHANGED <<chunks, scheduled>>
       ELSE /\ files' = DeleteFiles({id})
            /\ chunks' = CascadeChunks({id})
            /\ scheduled' = bulkDeleteFromDiscord(MessageIdsOf(id))
            /\ last' = Resp(200, TRUE)
  /\ UNCHANGED <<foreignKeys, reqs, nextMsg>>

\* -------------------------------------------------------------------- Next
Next ==
  \/ \E id \in FileIds, name \in Names, size \in Sizes :
       InitFile(id, name, size) /\ UNCHANGED others
  \/ \E r \in Reqs, id \in FileIds, h \in ChunkHeaders, cr \in ContentRanges, len \in BodyLens :
       ChunkRecv(r, id, h, cr, len) /\ UNCHANGED others
  \/ \E r \in Reqs : ChunkCheck(r) /\ UNCHANGED others
  \/ \E r \in Reqs : ChunkUploaded(r) /\ UNCHANGED others
  \/ \E r \in Reqs : ChunkUploadFailed(r) /\ UNCHANGED others
  \/ \E id \in FileIds, skipBackup \in BOOLEAN : Finalize(id, skipBackup) /\ UNCHANGED others
  \/ \E id \in FileIds : Abort(id) /\ UNCHANGED others
  \/ PurgePending /\ UNCHANGED others
  \/ \E id \in FileIds : Restore(id) /\ UNCHANGED others
  \/ EmptyTrash /\ UNCHANGED others
  \/ \E id \in FileIds : Delete(id) /\ UNCHANGED others

Spec == Init /\ [][Next]_vars

TypeOK ==
  /\ foreignKeys \in BOOLEAN
  /\ \A id \in FileIds : files[id].status \in {"absent", "pending", "active", "trashed"}
  /\ nextMsg \in 1..(NumReqs + 1)

\* ------------------------------------------- chunk uploads one after another
\* The same routes, driven by a caller that sends a chunk only after the
\* previous one was answered (a retrying client), with bodies of two lengths.
SeqReqs == 1..(NumReqs + 1)
SeqBodyLens == 0..(MaxBody + 1)

SeqInit ==
  /\ foreignKeys \in BOOLEAN
  /\ files = [id \in FileIds |-> NoFile]
  /\ chunks = <<>>
  /\ scheduled = {}
  /\ reqs = [r \in SeqReqs |-> NoReq]
  /\ nextMsg = 1
  /\ last = Resp(0, FALSE)
  /\ env = Env("backup")
  /\ stream = NoStream
  /\ download = NoDownload
  /\ client = NoClient
  /\ bulk = NoBulk
  /\ backups = NoBackup
  /\ auth = NoAuth
  /\ listing = NoListing

\* first Init of an id
SeqInitFile(id, size) ==
  /\ files[id].status = "absent"
  /\ InitFile(id, "n", size)

\* a chunk is sent when no other chunk upload is in flight
SeqChunkRecv(r, id, chunkHeader, len) ==
  /\ \A s \in SeqReqs : reqs[s].pc \in {"idle", "done"}
  /\ ChunkRecv(r, id, chunkHeader, NoHeader, len)

SeqNext ==
  \/ \E id \in FileIds, size \in Sizes : SeqInitFile(id, size) /\ UNCHANGED others
  \/ \E r \in SeqReqs, id \in FileIds, h \in ChunkHeaders, len \in SeqBodyLens :
       SeqChunkRecv(r, id, h, len) /\ UNCHANGED others
  \/ \E r \in SeqReqs : ChunkCheck(r) /\ UNCHANGED others
  \/ \E r \in SeqReqs : ChunkUploaded(r) /\ UNCHANGED others
  \/ \E r \in SeqReqs : ChunkUploadFailed(r) /\ UNCHANGED others

SeqSpec == SeqInit /\ [][SeqNext]_vars

\* ------------------------------------------------------------- stored index
Min(a, b) == IF a <= b THEN a ELSE b

RECURSIVE SumSizes(_)
SumSizes(rows) == IF Len(rows) = 0 THEN 0 ELSE rows[1].size + SumSizes(Tail(rows))

\* Stored files as the read routes find them: file "a" with chunk rows of the
\* given sizes, idx 0, 1, ... and message ids 1, 2, ..., all with the same kind
\* of url.
CHUNK_SIZE == 8388608

UrlStates == {"fresh", "soon", "past", "noex"}

\* chunk sizes of a stored file: every short list, and three client-sized
\* chunks of which the last is half full
Layouts ==
  UNION {[1..n -> 1..MaxChunkSize] : n \in 0..MaxChunks}
    \cup {<<CHUNK_SIZE, CHUNK_SIZE, CHUNK_SIZE \div 2>>}

RowsOf(sizes, url) ==
  [i \in DOMAIN sizes |-> [fileId |-> "a", idx |-> i - 1, messageId |-> i,
                           channelId |-> "primary", size |-> sizes[i], url |-> url]]

RECURSIVE Reverse(_)
Reverse(seq) == IF Len(seq) = 0 THEN <<>> ELSE Append(Reverse(Tail(seq)), seq[1])

\* chunk uploads of one file run in parallel, so rows get their rowids in any
\* order: here in idx order or against it
InsertionOrders(rows) == {rows, Reverse(rows)}

\* ORDER BY idx ASC
RECURSIVE InsertByIdx(_, _)
InsertByIdx(sorted, row) ==
  IF Len(sorted) = 0 THEN <<row>>
  ELSE IF sorted[1].idx <= row.idx THEN <<sorted[1]>> \o InsertByIdx(Tail(sorted), row)
  ELSE <<row>> \o sorted

RECURSIVE OrderByIdx(_)
OrderByIdx(rows) ==
  IF Len(rows) = 0 THEN <<>>
  ELSE InsertByIdx(OrderByIdx(SubSeq(rows, 1, Len(rows) - 1)), rows[Len(rows)])

\* an update without its WHERE clause
SetUrl_everyRow(messageId, url) == [i \in DOMAIN chunks |-> [chunks[i] EXCEPT !.url = url]]

\* UPDATE chunks SET url = ? WHERE message_id = ?
SetUrl(messageId, url) ==
  [i \in DOMAIN chunks |->
     IF chunks[i].messageId = messageId THEN [chunks[i] EXCEPT !.url = url] ELSE chunks[i]]

\* ------------------------------------------------------------ range stream
\* GET /stream/file/:id. A Range header is known by what the handler parses
\* out of it: parseInt of the text before the dash, and the text after it
\* (missing, or parsed). A position cannot be negative, the dash being the
\* separator.
NaN == -1073741824                      \* parseInt of text that is no number

Add(a, b) == IF a = NaN \/ b = NaN THEN NaN ELSE a + b
Sub(a, b) == IF a = NaN \/ b = NaN THEN NaN ELSE a - b
MathMin(a, b) == IF a = NaN \/ b = NaN THEN NaN ELSE IF a <= b THEN a ELSE b

Positions == (0..MaxPos) \cup {9000000, 11000000}
Ranges ==
  {[sent |-> FALSE, start |-> 0, end |-> NoHeader]}
    \cup {[sent |-> TRUE, start |-> s, end |-> e] :
            s \in Positions \cup {NaN}, e \in Positions \cup {NaN, NoHeader}}

\* the loop's test with the end of the chunk counted in
holdsStart_inclusive(start, currentOffset, size) ==
  start # NaN /\ start >= currentOffset /\ start <= currentOffset + size

\* start >= currentOffset && start < currentOffset + chunk.size
holdsStart(start, currentOffset, size) ==
  start # NaN /\ start >= currentOffset /\ start < currentOffset + size

\* the loop over the chunks that looks for the one holding the start byte
RECURSIVE targetChunk(_, _, _)
targetChunk(rows, start, currentOffset) ==
  IF Len(rows) = 0 THEN [found |-> FALSE]
  ELSE IF holdsStart(start, currentOffset, rows[1].size)
       THEN [found |-> TRUE, chunk |-> rows[1], chunkStartOffset |-> currentOffset]
       ELSE targetChunk(Tail(rows), start, currentOffset + rows[1].size)

\* the request size without its last byte
requestSize_exclusive(end, start) == Sub(end, start)

\* end - start + 1
requestSize(end, start) == Add(Sub(end, start), 1)

\* the last byte of the chunk left out
localAvailable_short(size, localStart) == size - localStart - 1

\* targetChunk.size - localStart
localAvailable(size, localStart) == size - localStart

\* the length served without the clamp to the end of the chunk
actualLength_unclamped(requested, available) == requested

\* Math.min(requestSize, localAvailable)
actualLength(requested, available) == MathMin(requested, available)

\* an url is refreshed unless its ex lies at least five minutes ahead
isExpired(url) == url # "fresh"

\* a request that was answered, or is on its way: what it computed, the calls
\* to the external store it made so far, and its response
StreamAt(pc, code, id, size, start, end, chunk, localStart, localEnd, globalEnd, length, cdnUrl) ==
  [pc |-> pc, code |-> code, fileId |-> id, size |-> size, start |-> start, end |-> end,
   idx |-> chunk.idx, messageId |-> chunk.messageId,
   localStart |-> localStart, localEnd |-> localEnd, globalEnd |-> globalEnd,
   actualLength |-> length, cdnUrl |-> cdnUrl, originalChannel |-> "",
   calls |-> <<>>, upstream |-> ""]

NoChunk == [idx |-> 0, messageId |-> NoMsg]

StreamRefused(code, id, size, start, end) ==
  StreamAt("done", code, id, size, start, end, NoChunk, 0, 0, 0, 0, "")

\* the handler up to its first await: what it has computed by then
StreamStart(id, range) ==
  LET file == files[id]
      start == IF range.sent THEN range.start ELSE 0
      end == IF range.sent /\ range.end # NoHeader THEN range.end ELSE file.size - 1
      target == targetChunk(OrderByIdx(ChunksOf(id)), start, 0)
      localStart == start - target.chunkStartOffset
      available == localAvailable(target.chunk.size, localStart)
      length == actualLength(requestSize(end, start), available)
      localEnd == Sub(Add(localStart, length), 1)
      globalEnd == Sub(Add(start, length), 1)
      cdnUrl == target.chunk.url
  IN  IF file.status = "absent" THEN StreamRefused(404, id, 0, 0, 0)
      ELSE IF ~target.found THEN StreamRefused(416, id, file.size, start, end)
      ELSE StreamAt(IF isExpired(cdnUrl) THEN "bulk" ELSE "fetch", 0, id, file.size, start, end,
                    target.chunk, localStart, localEnd, globalEnd, length, cdnUrl)

StreamRequest(id, range) ==
  /\ stream.pc = "idle"
  /\ stream' = StreamStart(id, range)
  /\ UNCHANGED <<foreignKeys, files, chunks, scheduled, reqs, nextMsg, last,
                 env, download, client, bulk, backups, auth, listing>>

\* 1. refreshDiscordUrls([cdnUrl]) came back: with a new url, with none, or by
\* throwing. A stored url is never null (message_id and url are both written by
\* the insert), so the bulk step is always the first.
StreamBulkRefresh(outcome) ==
  LET cdnUrl == IF outcome = "url" THEN FreshUrl ELSE stream.cdnUrl
  IN  /\ stream.pc = "bulk"
      /\ IF isExpired(cdnUrl)
           THEN /\ stream' = [stream EXCEPT !.pc = "jit", !.calls = Append(@, "bulk")]
                /\ UNCHANGED chunks
           ELSE /\ stream' = [stream EXCEPT !.pc = "fetch", !.cdnUrl = cdnUrl,
                                            !.calls = Append(@, "bulk")]
                /\ chunks' = SetUrl(stream.messageId, cdnUrl)
      /\ UNCHANGED <<foreignKeys, files, scheduled, reqs, nextMsg, last, env, download, client, bulk, backups, auth, listing>>

\* 2. getDiscordCDNUrl(message_id) came back with the url, or threw; in the
\* catch the channel variable is overwritten for the backup lookup
StreamJit(ok) ==
  /\ stream.pc = "jit"
  /\ IF ok
       THEN /\ stream' = [stream EXCEPT !.pc = "fetch", !.cdnUrl = FreshUrl,
                                        !.calls = Append(@, "jit")]
            /\ chunks' = SetUrl(stream.messageId, FreshUrl)
            /\ UNCHANGED env
       ELSE IF env.backup # ""
       THEN /\ stream' = [stream EXCEPT !.pc = "jitBackup", !.originalChannel = env.channel,
                                        !.calls = Append(@, "jit")]
            /\ env' = [env EXCEPT !.channel = env.backup]
            /\ UNCHANGED chunks
       ELSE /\ stream' = [stream EXCEPT !.pc = "fetch", !.calls = Append(@, "jit")]
            /\ UNCHANGED <<chunks, env>>
  /\ UNCHANGED <<foreignKeys, files, scheduled, reqs, nextMsg, last, download, client, bulk, backups, auth, listing>>

\* 3. the lookup made while the channel variable was overwritten came back:
\* the variable is put back only if the lookup did not throw
StreamJitBackup(ok) ==
  /\ stream.pc = "jitBackup"
  /\ IF ok
       THEN /\ stream' = [stream EXCEPT !.pc = "fetch", !.cdnUrl = FreshUrl,
                                        !.calls = Append(@, "jitBackup")]
            /\ env' = [env EXCEPT !.channel = stream.originalChannel]
            /\ chunks' = SetUrl(stream.messageId, FreshUrl)
       ELSE /\ stream' = [stream EXCEPT !.pc = "fetch", !.calls = Append(@, "jitBackup")]
            /\ UNCHANGED <<chunks, env>>
  /\ UNCHANGED <<foreignKeys, files, scheduled, reqs, nextMsg, last, download, client, bulk, backups, auth, listing>>

\* fetch(cdnUrl, Range: bytes=localStart-localEnd) came back ok, not ok, or threw
StreamFetch(outcome) ==
  /\ stream.pc = "fetch"
  /\ stream' = [stream EXCEPT !.pc = "done", !.calls = Append(@, "fetch"), !.upstream = outcome,
                              !.code = CASE outcome = "ok" -> 206
                                         [] outcome = "notOk" -> 502
                                         [] OTHER -> 500]
  /\ UNCHANGED <<foreignKeys, files, chunks, scheduled, reqs, nextMsg, last,
                 env, download, client, bulk, backups, auth, listing>>

StreamInit ==
  /\ foreignKeys = FALSE
  /\ \E sizes \in Layouts, url \in UrlStates, extra \in 0..1 :
       /\ files = [id \in FileIds |->
                     IF id = "a"
                       THEN [status |-> "active", name |-> "n",
                             size |-> SumSizes(RowsOf(sizes, url)) + extra]
                       ELSE NoFile]
       /\ chunks \in InsertionOrders(RowsOf(sizes, url))
  /\ scheduled = {}
  /\ reqs = [r \in Reqs |-> NoReq]
  /\ nextMsg = 1
  /\ last = Resp(0, FALSE)
  /\ env \in {Env(""), Env("backup")}
  /\ stream = NoStream
  /\ download = NoDownload
  /\ client = NoClient
  /\ bulk = NoBulk
  /\ backups = NoBackup
  /\ auth = NoAuth
  /\ listing = NoListing

StreamNext ==
  \/ \E id \in FileIds, range \in Ranges : StreamRequest(id, range)
  \/ \E outcome \in {"url", "none", "throw"} : StreamBulkRefresh(outcome)
  \/ \E ok \in BOOLEAN : StreamJit(ok)
  \/ \E ok \in BOOLEAN : StreamJitBackup(ok)
  \/ \E outcome \in {"ok", "notOk", "throw"} : StreamFetch(outcome)

StreamSpec == StreamInit /\ [][StreamNext]_vars

\* -------------------------------------------------------- full-file download
\* GET /download/:id without an index query: the body is piped chunk by chunk
\* while the next chunks are fetched ahead.
WINDOW_SIZE == 2
MAX_ATTEMPTS == 2

StartChunks == (0..(MaxChunks + 1)) \cup {NaN}    \* parseInt(start_chunk || "0")

\* !cdnUrl || (cdnUrl.includes("ex=") && ex < now): a stored url is never null
isExpiredForDownload(url) == url = "past"

\* chunks.filter((ch) => ch.idx >= startChunkIndex)
filteredChunks(rows, startChunkIndex) ==
  SelectSeq(rows, LAMBDA ch : startChunkIndex # NaN /\ ch.idx >= startChunkIndex)

\* chunkPromises[i]: null, or the promise of fetchChunkData with its locals,
\* the number of upstream fetches it started, the attempts it refreshed in
\* and whether its last fetch was answered 403 or 410
NoPromise == [st |-> "null", attempt |-> 0, cdnUrl |-> "", fetched |-> 0, refreshedAt |-> {}, authExpired |-> FALSE]

\* a retry that trusts a url which does not look expired
needsRefresh_expiredOnly(url, attempt) == isExpiredForDownload(url)

\* isExpired || (isRetry && chunk.message_id): message_id is NOT NULL
needsRefresh(url, attempt) == isExpiredForDownload(url) \/ attempt > 1

\* if (c.req.raw.signal.aborted) throw, right before the upstream fetch
abortedBeforeFetch(signal) == signal

\* the signal is not looked at before a write
abortedBeforeWrite_unchecked(signal) == FALSE

\* if (c.req.raw.signal.aborted) throw, right before writer.write
abortedBeforeWrite(signal) == signal

\* one pass of the while loop up to its first await: the refresh call when it
\* is due, else the check of the signal and the upstream fetch
StartAttempt(attempt, cdnUrl, fetched, refreshedAt, authExpired, signal) ==
  IF needsRefresh(cdnUrl, attempt)
    THEN [st |-> "refresh", attempt |-> attempt, cdnUrl |-> cdnUrl, fetched |-> fetched,
          refreshedAt |-> refreshedAt \cup {attempt}, authExpired |-> authExpired]
  ELSE IF abortedBeforeFetch(signal)
    THEN [st |-> "rejected", attempt |-> attempt, cdnUrl |-> cdnUrl, fetched |-> fetched,
          refreshedAt |-> refreshedAt, authExpired |-> authExpired]
  ELSE [st |-> "fetch", attempt |-> attempt, cdnUrl |-> cdnUrl, fetched |-> fetched + 1,
        refreshedAt |-> refreshedAt, authExpired |-> authExpired]

\* fetchChunkData(chunk) up to its first await
fetchChunkData(chunk, signal) ==
  IF signal THEN [NoPromise EXCEPT !.st = "rejected", !.cdnUrl = chunk.url]
  ELSE StartAttempt(1, chunk.url, 0, {}, FALSE, signal)

\* every chunk is fetched at once
InitialWindow_all(n) == n

\* Math.min(WINDOW_SIZE, filteredChunks.length)
InitialWindow(n) == Min(WINDOW_SIZE, n)

DownloadRefused(code) ==
  [pc |-> "done", code |-> code, startChunkIndex |-> 0, contentLength |-> 0, filtered |-> <<>>,
   chunkPromises |-> <<>>, i |-> 0, written |-> <<>>, bytes |-> 0, signal |-> FALSE,
   calls |-> <<>>]

\* the handler up to its response: the headers are sent while the body is
\* still to be piped
DownloadRequest(id, startChunkIndex) ==
  LET rows == OrderByIdx(ChunksOf(id))
      totalEncryptedSize == SumSizes(rows)
      filtered == filteredChunks(rows, startChunkIndex)
  IN  /\ download.pc = "idle"
      /\ download' =
           IF files[id].status = "absent" \/ Len(rows) = 0 THEN DownloadRefused(404)
           ELSE [pc |-> IF Len(filtered) = 0 THEN "closed" ELSE "piping",
                 code |-> 200, startChunkIndex |-> startChunkIndex,
                 contentLength |-> totalEncryptedSize, filtered |-> filtered,
                 chunkPromises |-> [k \in DOMAIN filtered |->
                                     IF k <= InitialWindow(Len(filtered))
                                       THEN fetchChunkData(filtered[k], FALSE) ELSE NoPromise],
                 i |-> 0, written |-> <<>>, bytes |-> 0, signal |-> FALSE,
                 calls |-> <<>>]
      /\ UNCHANGED <<foreignKeys, files, chunks, scheduled, reqs, nextMsg, last,
                     env, stream, client, bulk, backups, auth, listing>>

\* the client goes away while the body is piped: c.req.raw.signal is aborted
DownloadCancel ==
  /\ download.pc \in {"piping", "writing"}
  /\ ~download.signal
  /\ download' = [download EXCEPT !.signal = TRUE, !.calls = <<>>]
  /\ UNCHANGED <<foreignKeys, files, chunks, scheduled, reqs, nextMsg, last,
                 env, stream, client, bulk, backups, auth, listing>>

\* the refresh steps of one attempt, by how they end: the bulk refresh gave a
\* url; it gave none and the JIT lookup gave one; it gave none and the JIT
\* lookup threw; the bulk refresh threw (the catch skips the JIT lookup)
RefreshOutcomes == {"bulk", "jit", "jitThrew", "bulkThrew"}

RefreshCalls(outcome) ==
  IF outcome = "bulk" THEN <<[step |-> "bulk", result |-> "url"]>>
  ELSE IF outcome = "jit" THEN <<[step |-> "bulk", result |-> "none"], [step |-> "jit", result |-> "url"]>>
  ELSE IF outcome = "jitThrew" THEN <<[step |-> "bulk", result |-> "none"], [step |-> "jit", result |-> "threw"]>>
  ELSE <<[step |-> "bulk", result |-> "threw"]>>

\* the refresh of the chunk at position k is over: a url it got is stored;
\* then the signal is checked and the upstream fetch started (calls holds the
\* refresh calls of the step just taken)
DownloadRefreshed(k, outcome) ==
  LET p == download.chunkPromises[k]
      cdnUrl == IF outcome \in {"bulk", "jit"} THEN FreshUrl ELSE p.cdnUrl
  IN  /\ download.pc # "idle"
      /\ k \in DOMAIN download.chunkPromises
      /\ p.st = "refresh"
      /\ chunks' = IF outcome \in {"bulk", "jit"}
                     THEN SetUrl(download.filtered[k].messageId, cdnUrl) ELSE chunks
      /\ download' = [download EXCEPT
           !.calls = RefreshCalls(outcome),
           !.chunkPromises[k] =
             IF abortedBeforeFetch(download.signal)
               THEN [p EXCEPT !.st = "rejected", !.cdnUrl = cdnUrl]
               ELSE [p EXCEPT !.st = "fetch", !.cdnUrl = cdnUrl, !.fetched = @ + 1]]
      /\ UNCHANGED <<foreignKeys, files, scheduled, reqs, nextMsg, last,
                     env, stream, client, bulk, backups, auth, listing>>

\* the upstream fetch of the chunk at position k is over: the body arrived,
\* the answer was 403 or 410, it was another non-2xx, or the fetch threw
\* (network error, timeout); a failed first attempt is followed by a second
FetchOutcomes == {"ok", "403", "500", "error"}

DownloadFetched(k, outcome) ==
  LET p == download.chunkPromises[k]
      retry == StartAttempt(p.attempt + 1, p.cdnUrl, p.fetched, p.refreshedAt,
                            outcome = "403", download.signal)
  IN  /\ download.pc # "idle"
      /\ k \in DOMAIN download.chunkPromises
      /\ p.st = "fetch"
      /\ download' = [download EXCEPT !.calls = <<>>, !.chunkPromises[k] =
           IF outcome = "ok" THEN [p EXCEPT !.st = "resolved", !.authExpired = (outcome = "403")]
           ELSE IF p.attempt >= MAX_ATTEMPTS THEN [p EXCEPT !.st = "rejected", !.authExpired = (outcome = "403")]
           ELSE IF outcome = "403" THEN retry
           ELSE IF download.signal THEN [p EXCEPT !.st = "rejected", !.authExpired = (outcome = "403")]
           ELSE retry]
      /\ UNCHANGED <<foreignKeys, files, chunks, scheduled, reqs, nextMsg, last,
                     env, stream, client, bulk, backups, auth, listing>>

\* the loop body once chunkPromises[i] is resolved: drop the buffer's promise,
\* start the look-ahead fetch, check the signal, hand the buffer to the writer
DownloadWrite ==
  LET k == download.i + 1
      lookAheadIndex == k + WINDOW_SIZE
  IN  /\ download.pc = "piping"
      /\ download.chunkPromises[k].st = "resolved"
      /\ download' = [download EXCEPT
           !.chunkPromises = [j \in DOMAIN @ |->
                                IF j = k THEN NoPromise
                                ELSE IF j = lookAheadIndex
                                  THEN fetchChunkData(download.filtered[j], download.signal)
                                ELSE @[j]],
           !.i = k,
           !.calls = <<>>,
           !.written = IF abortedBeforeWrite(download.signal) THEN @
                       ELSE Append(@, download.filtered[k].idx),
           !.bytes = IF abortedBeforeWrite(download.signal) THEN @
                     ELSE @ + download.filtered[k].size,
           !.pc = IF abortedBeforeWrite(download.signal) THEN "aborted" ELSE "writing"]
      /\ UNCHANGED <<foreignKeys, files, chunks, scheduled, reqs, nextMsg, last,
                     env, stream, client, bulk, backups, auth, listing>>

\* writer.write settled. Resolved: after the last chunk the writer is closed,
\* else the signal is checked and the next promise awaited. Rejected (the
\* client is gone): the writer is aborted. A close after the client went away
\* runs into the same choice.
DownloadWritten(ok) ==
  /\ download.pc = "writing"
  /\ ~ok => download.signal
  /\ download' = [download EXCEPT !.calls = <<>>, !.pc =
       IF ~ok THEN "aborted"
       ELSE IF download.i = Len(download.filtered) THEN "closed"
       ELSE IF download.signal THEN "aborted"
       ELSE "piping"]
  /\ UNCHANGED <<foreignKeys, files, chunks, scheduled, reqs, nextMsg, last,
                 env, stream, client, bulk, backups, auth, listing>>

\* the awaited promise was rejected: the writer is aborted
DownloadFail ==
  /\ download.pc = "piping"
  /\ download.chunkPromises[download.i + 1].st = "rejected"
  /\ download' = [download EXCEPT !.pc = "aborted", !.calls = <<>>]
  /\ UNCHANGED <<foreignKeys, files, chunks, scheduled, reqs, nextMsg, last,
                 env, stream, client, bulk, backups, auth, listing>>

\* a second row for idx 0, as two overlapping uploads of chunk 0 leave it (the
\* chunks table has no UNIQUE(file_id, idx))
WithOverlap(rows) ==
  Append(rows, [fileId |-> "a", idx |-> 0, messageId |-> Len(rows) + 1,
                channelId |-> "primary", size |-> 1, url |-> rows[1].url])

DownloadInit ==
  /\ foreignKeys = FALSE
  /\ \E sizes \in Layouts, url \in UrlStates :
       /\ files = [id \in FileIds |->
                     IF id = "a"
                       THEN [status |-> "active", name |-> "n",
                             size |-> SumSizes(RowsOf(sizes, url))]
                       ELSE NoFile]
       /\ \E rows \in InsertionOrders(RowsOf(sizes, url)) :
            chunks \in {rows} \cup (IF Len(rows) > 0 THEN {WithOverlap(rows)} ELSE {})
  /\ scheduled = {}
  /\ reqs = [r \in Reqs |-> NoReq]
  /\ nextMsg = 1
  /\ last = Resp(0, FALSE)
  /\ env = Env("backup")
  /\ stream = NoStream
  /\ download = NoDownload
  /\ client = NoClient
  /\ bulk = NoBulk
  /\ backups = NoBackup
  /\ auth = NoAuth
  /\ listing = NoListing

DownloadNext ==
  \/ \E id \in FileIds, startChunkIndex \in StartChunks : DownloadRequest(id, startChunkIndex)
  \/ DownloadCancel
  \/ \E k \in 1..(MaxChunks + 2), outcome \in RefreshOutcomes : DownloadRefreshed(k, outcome)
  \/ \E k \in 1..(MaxChunks + 2), outcome \in FetchOutcomes : DownloadFetched(k, outcome)
  \/ DownloadWrite
  \/ \E ok \in BOOLEAN : DownloadWritten(ok)
  \/ DownloadFail

DownloadSpec == DownloadInit /\ [][DownloadNext]_vars

\* Every call the download waits for settles: the upstream fetch has a timeout
\* of 120 s, the refresh calls and the write end with an answer or an error.
DownloadSettles ==
  \/ \E k \in 1..(MaxChunks + 2), outcome \in RefreshOutcomes : DownloadRefreshed(k, outcome)
  \/ \E k \in 1..(MaxChunks + 2), outcome \in FetchOutcomes : DownloadFetched(k, outcome)
  \/ DownloadWrite
  \/ \E ok \in BOOLEAN : DownloadWritten(ok)
  \/ DownloadFail

DownloadLive == DownloadSpec /\ WF_vars(DownloadSettles)

\* --------------------------------------------------------- client upload run
\* processUpload of the browser client against the upload routes, for a file
\* "a" of totalChunks chunks (one byte stands for a chunk of CHUNK_SIZE bytes).
\* The run may find a pending record with chunks that an earlier, interrupted
\* run has stored.
CONCURRENCY == 3

\* GET /upload/file/:id/chunks: SELECT idx FROM chunks WHERE file_id = ?, a
\* table scan without ORDER BY, which yields the rows in rowid order
DiscoverChunks(id) == [i \in DOMAIN ChunksOf(id) |-> ChunksOf(id)[i].idx]

\* existingChunks.includes(index)
Includes(list, x) == \E i \in DOMAIN list : list[i] = x

\* the orders in which parallel uploads can have inserted the given indices
Orders(indices) ==
  {o \in [1..Cardinality(indices) -> indices] : \A i, j \in DOMAIN o : o[i] = o[j] => i = j}

StoredRows(order) ==
  [i \in DOMAIN order |-> [fileId |-> "a", idx |-> order[i], messageId |-> i,
                           channelId |-> "primary", size |-> 1, url |-> FreshUrl]]

\* tasks[index] of runWithConcurrency: not started, started, request sent on
\* a connection, finished
NewTask == [st |-> "new", req |-> 0]

ClientInit ==
  /\ foreignKeys \in BOOLEAN
  /\ \E totalChunks \in 0..MaxTotal, had \in SUBSET (0..(MaxTotal - 1)) :
       /\ had \subseteq 0..(totalChunks - 1)
       /\ totalChunks - Cardinality(had) <= NumReqs
       /\ \E order \in Orders(had) :
            /\ chunks = StoredRows(order)
            /\ nextMsg = Len(order) + 1
       /\ files \in {[id \in FileIds |->
                        IF id = "a" /\ present
                          THEN [status |-> "pending", name |-> "n", size |-> totalChunks]
                          ELSE NoFile] : present \in IF had = {} THEN BOOLEAN ELSE {TRUE}}
       /\ client = [pc |-> "start", totalChunks |-> totalChunks, had |-> had,
                    existingChunks |-> <<>>, currentIndex |-> 0, running |-> 0,
                    tasks |-> [index \in 0..(totalChunks - 1) |-> NewTask], sent |-> {}]
  /\ scheduled = {}
  /\ reqs = [r \in Reqs |-> NoReq]
  /\ last = Resp(0, FALSE)
  /\ env = Env("backup")
  /\ stream = NoStream
  /\ download = NoDownload
  /\ bulk = NoBulk
  /\ backups = NoBackup
  /\ auth = NoAuth
  /\ listing = NoListing

\* 2. Init/Check on Server
ClientPostInit ==
  /\ client.pc = "start"
  /\ InitFile("a", "n", client.totalChunks)
  /\ client' = [client EXCEPT !.pc = IF last'.code = 200 THEN "discover" ELSE "failed"]
  /\ UNCHANGED <<env, stream, download, bulk, backups, auth, listing>>

\* runNext() called times times: each call starts the task at currentIndex
StartTasks(c, times) ==
  [c EXCEPT !.tasks = [index \in DOMAIN @ |->
                         IF index >= c.currentIndex /\ index < c.currentIndex + times
                           THEN [st |-> "started", req |-> 0] ELSE @[index]],
            !.currentIndex = @ + times,
            !.running = @ + times]

\* 3. Discovery, then the tasks are made and runWithConcurrency starts the
\* first CONCURRENCY of them
ClientDiscover ==
  /\ client.pc = "discover"
  /\ client' = StartTasks([client EXCEPT !.pc = "upload", !.existingChunks = DiscoverChunks("a")],
                          Min(CONCURRENCY, client.totalChunks))
  /\ UNCHANGED <<foreignKeys, files, chunks, scheduled, reqs, nextMsg, last, env, stream, download, bulk, backups, auth, listing>>

\* a task resolved: the next one is started, or the pool resolves
TaskResolved(c, index) ==
  LET d == [c EXCEPT !.tasks[index].st = "finished", !.running = @ - 1]
  IN  IF d.currentIndex < d.totalChunks THEN StartTasks(d, 1)
      ELSE IF d.running = 0 THEN [d EXCEPT !.pc = "finalize"]
      ELSE d

\* a started task whose index the discovery reported returns at once
ClientSkip(index) ==
  /\ client.pc \in {"upload", "failed"}
  /\ index \in DOMAIN client.tasks
  /\ client.tasks[index].st = "started"
  /\ Includes(client.existingChunks, index)
  /\ client' = IF client.pc = "upload" THEN TaskResolved(client, index)
               ELSE [client EXCEPT !.tasks[index].st = "finished", !.running = @ - 1]
  /\ UNCHANGED <<foreignKeys, files, chunks, scheduled, reqs, nextMsg, last, env, stream, download, bulk, backups, auth, listing>>

\* any other started task posts its chunk with X-Chunk-Number: index + 1
ClientSend(index, r) ==
  /\ client.pc \in {"upload", "failed"}
  /\ index \in DOMAIN client.tasks
  /\ client.tasks[index].st = "started"
  /\ ~Includes(client.existingChunks, index)
  /\ ChunkRecv(r, "a", index + 1, NoHeader, 1)
  /\ client' = [client EXCEPT !.tasks[index] = [st |-> "sent", req |-> r],
                              !.sent = @ \cup {index}]
  /\ UNCHANGED <<env, stream, download, bulk, backups, auth, listing>>

\* xhr.onload: a 2xx resolves the task, any other status rejects it and with
\* it the pool (the other tasks that were started run on)
ClientChunkDone(index) ==
  /\ client.pc \in {"upload", "failed"}
  /\ index \in DOMAIN client.tasks
  /\ client.tasks[index].st = "sent"
  /\ reqs[client.tasks[index].req].pc = "done"
  /\ client' =
       IF reqs[client.tasks[index].req].code = 200
         THEN IF client.pc = "upload" THEN TaskResolved(client, index)
              ELSE [client EXCEPT !.tasks[index].st = "finished", !.running = @ - 1]
         ELSE [client EXCEPT !.tasks[index].st = "finished", !.pc = "failed"]
  /\ UNCHANGED <<foreignKeys, files, chunks, scheduled, reqs, nextMsg, last, env, stream, download, bulk, backups, auth, listing>>

\* the pool resolved: finalize
ClientFinalize(isLast) ==
  /\ client.pc = "finalize"
  /\ Finalize("a", ~isLast)
  /\ client' = [client EXCEPT !.pc = "done"]
  /\ UNCHANGED <<env, stream, download, bulk, backups, auth, listing>>

ClientNext ==
  \/ ClientPostInit
  \/ ClientDiscover
  \/ \E index \in 0..(MaxTotal - 1) : ClientSkip(index)
  \/ \E index \in 0..(MaxTotal - 1), r \in Reqs : ClientSend(index, r)
  \/ \E index \in 0..(MaxTotal - 1) : ClientChunkDone(index)
  \/ \E isLast \in BOOLEAN : ClientFinalize(isLast)
  \/ \E r \in Reqs : ChunkCheck(r) /\ UNCHANGED others
  \/ \E r \in Reqs : ChunkUploaded(r) /\ UNCHANGED others
  \/ \E r \in Reqs : ChunkUploadFailed(r) /\ UNCHANGED others

ClientSpec == ClientInit /\ [][ClientNext]_vars

\* ------------------------------------------------------ bulkDeleteFromDiscord
\* One call with a list of n message ids, known here by their positions 1..n.
BatchLimit == 100                     \* ids per bulk-delete call
limit == 5                            \* individual deletes per wave

ListLengths == {0, 1, 2, 6, 100, 101, 150}

\* list.slice(i, i + size) with one id too many left out
Slice_short(i, size, n) == (i + 1)..Min(i + size - 1, n)

\* list.slice(i, i + size), as positions of a list of n ids
Slice(i, size, n) == (i + 1)..Min(i + size, n)

\* an error that leaves the routine as a rejected promise
catch_rethrown(threw, after) == IF threw THEN [after EXCEPT !.pc = "raised"] ELSE after

\* try { ... } catch (err) { logger.error(...) }: what threw is logged and the
\* code after the catch runs
catch(threw, after) == after

BulkInit ==
  /\ foreignKeys = FALSE
  /\ files = [id \in FileIds |-> NoFile]
  /\ chunks = <<>>
  /\ scheduled = {}
  /\ reqs = [r \in Reqs |-> NoReq]
  /\ nextMsg = 1
  /\ last = Resp(0, FALSE)
  /\ env = Env("backup")
  /\ stream = NoStream
  /\ download = NoDownload
  /\ client = NoClient
  /\ bulk = NoBulk
  /\ backups = NoBackup
  /\ auth = NoAuth
  /\ listing = NoListing

\* the call up to its first await: nothing for an empty list, one plain
\* delete for a single id, else the bulk call for the first batch
BulkStart(n) ==
  /\ bulk.pc = "idle"
  /\ bulk' = [pc |-> IF n = 0 THEN "done" ELSE IF n = 1 THEN "single" ELSE "bulkCall",
              n |-> n, i |-> 0, w |-> 0, inFlight |-> {}, bulkCalls |-> <<>>,
              deletes |-> [id \in 1..n |-> IF n = 1 THEN 1 ELSE 0], networkError |-> FALSE]
  /\ UNCHANGED <<foreignKeys, files, chunks, scheduled, reqs, nextMsg, last,
                 env, stream, download, client, backups, auth, listing>>

\* the delete of the only id came back, or threw
BulkSingleDone(threw) ==
  /\ bulk.pc = "single"
  /\ bulk' = catch(threw, [bulk EXCEPT !.pc = "done", !.networkError = threw])
  /\ UNCHANGED <<foreignKeys, files, chunks, scheduled, reqs, nextMsg, last,
                 env, stream, download, client, backups, auth, listing>>

\* the loop over the batches moves on
NextBatch(b) ==
  IF b.i + BatchLimit < b.n THEN [b EXCEPT !.pc = "bulkCall", !.i = @ + BatchLimit, !.w = 0]
  ELSE [b EXCEPT !.pc = "done"]

\* the individual deletes of the wave at offset w of the batch are issued
StartWave(b, w) ==
  LET batch == Slice(b.i, BatchLimit, b.n)
      individualBatch == {b.i + k : k \in Slice(w, limit, Cardinality(batch))}
  IN  [b EXCEPT !.pc = "wave", !.w = w, !.inFlight = individualBatch,
                !.deletes = [id \in DOMAIN @ |-> IF id \in individualBatch THEN @[id] + 1 ELSE @[id]]]

\* the bulk call of the batch at offset i was answered 2xx, answered something
\* else, or threw (the catch around the batch logs and goes on)
BulkCallAnswered(outcome) ==
  LET batch == Slice(bulk.i, BatchLimit, bulk.n)
      called == [bulk EXCEPT !.bulkCalls = Append(@, [batch |-> batch, outcome |-> outcome]),
                             !.networkError = @ \/ outcome = "throw"]
  IN  /\ bulk.pc = "bulkCall"
      /\ bulk' = IF outcome = "notOk" THEN StartWave(called, 0)
                  ELSE catch(outcome = "throw", NextBatch(called))
      /\ UNCHANGED <<foreignKeys, files, chunks, scheduled, reqs, nextMsg, last,
                     env, stream, download, client, backups, auth, listing>>

\* one individual delete came back, or threw and was logged; the wave is over
\* when all of them have
BulkDeleteSettled(id, threw) ==
  /\ bulk.pc = "wave"
  /\ id \in bulk.inFlight
  /\ bulk' = catch(threw, [bulk EXCEPT !.inFlight = @ \ {id}, !.networkError = @ \/ threw,
                                        !.pc = IF bulk.inFlight = {id} THEN "pause" ELSE "wave"])
  /\ UNCHANGED <<foreignKeys, files, chunks, scheduled, reqs, nextMsg, last,
                 env, stream, download, client, backups, auth, listing>>

\* the 250 ms pause after a wave is over: the next wave, or the next batch
BulkPauseOver ==
  LET batch == Slice(bulk.i, BatchLimit, bulk.n)
  IN  /\ bulk.pc = "pause"
      /\ bulk' = IF bulk.w + limit < Cardinality(batch) THEN StartWave(bulk, bulk.w + limit)
                  ELSE NextBatch(bulk)
      /\ UNCHANGED <<foreignKeys, files, chunks, scheduled, reqs, nextMsg, last,
                     env, stream, download, client, backups, auth, listing>>

BulkNext ==
  \/ \E n \in ListLengths : BulkStart(n)
  \/ \E threw \in BOOLEAN : BulkSingleDone(threw)
  \/ \E outcome \in {"ok", "notOk", "throw"} : BulkCallAnswered(outcome)
  \/ \E id \in UNION {1..n : n \in ListLengths}, threw \in BOOLEAN : BulkDeleteSettled(id, threw)
  \/ BulkPauseOver

BulkSpec == BulkInit /\ [][BulkNext]_vars

\* ------------------------------------------------------------ backupDatabase
\* The backup channel is known by the ids of its marker-prefixed messages; a
\* run is started by Finalize, Delete, Restore, Empty-Trash or the manual
\* trigger, none of which waits for it.
Max(S) == CHOOSE x \in S : \A y \in S : y <= x

BackupInit ==
  /\ foreignKeys = FALSE
  /\ files = [id \in FileIds |-> NoFile]
  /\ chunks = <<>>
  /\ scheduled = {}
  /\ reqs = [r \in Reqs |-> NoReq]
  /\ nextMsg = 1
  /\ last = Resp(0, FALSE)
  /\ env = Env("backup")
  /\ stream = NoStream
  /\ download = NoDownload
  /\ client = NoClient
  /\ bulk = NoBulk
  /\ backups = NoBackup
  /\ auth = NoAuth
  /\ listing = NoListing

\* a handler calls backupDatabase(): the file is read and the list request sent
BackupStart(r) ==
  /\ backups.runs[r].pc \in {"idle", "done"}
  /\ backups.started < MaxBackups
  /\ backups' = [backups EXCEPT !.started = @ + 1, !.runs[r] = [pc |-> "list", oldBackups |-> {}]]
  /\ UNCHANGED <<foreignKeys, files, chunks, scheduled, reqs, nextMsg, last,
                 env, stream, download, client, bulk, auth, listing>>

\* the list of recent messages is answered: 2xx with the marker messages the
\* channel holds now, or not 2xx (no clean-up then)
BackupListed(r, ok) ==
  LET oldBackups == IF ok THEN backups.channel ELSE {}
  IN  /\ backups.runs[r].pc = "list"
      /\ backups' = [backups EXCEPT !.runs[r] =
                       [pc |-> IF oldBackups = {} THEN "upload" ELSE "delete", oldBackups |-> oldBackups]]
      /\ UNCHANGED <<foreignKeys, files, chunks, scheduled, reqs, nextMsg, last,
                     env, stream, download, client, bulk, auth, listing>>

\* the delete of the next old backup (newest first) is over: the message is
\* gone, or it is not (rejected and swallowed, or an answer nobody reads)
BackupDeleted(r, removed) ==
  LET run == backups.runs[r]
      msg == Max(run.oldBackups)
      left == run.oldBackups \ {msg}
  IN  /\ run.pc = "delete"
      /\ removed => msg \in backups.channel
      /\ backups' = [backups EXCEPT !.channel = IF removed THEN @ \ {msg} ELSE @,
                                    !.runs[r] = [pc |-> IF left = {} THEN "upload" ELSE "delete",
                                                 oldBackups |-> left]]
      /\ UNCHANGED <<foreignKeys, files, chunks, scheduled, reqs, nextMsg, last,
                     env, stream, download, client, bulk, auth, listing>>

\* the upload of the new snapshot is answered: 2xx and the channel has a new
\* marker message, or not and the error is logged
BackupUploaded(r, ok) ==
  /\ backups.runs[r].pc = "upload"
  /\ backups' = [backups EXCEPT !.channel = IF ok THEN @ \cup {backups.nextId} ELSE @,
                                !.nextId = IF ok THEN @ + 1 ELSE @,
                                !.runs[r] = catch(~ok, [pc |-> "done", oldBackups |-> {}])]
  /\ UNCHANGED <<foreignKeys, files, chunks, scheduled, reqs, nextMsg, last,
                 env, stream, download, client, bulk, auth, listing>>

\* the list request or the upload threw (network error), or the answer of the
\* list request could not be read: the catch around the routine logs it and
\* the run is over without an upload
BackupThrew(r) ==
  /\ backups.runs[r].pc \in {"list", "upload"}
  /\ backups' = [backups EXCEPT !.runs[r] = catch(TRUE, [pc |-> "done", oldBackups |-> {}])]
  /\ UNCHANGED <<foreignKeys, files, chunks, scheduled, reqs, nextMsg, last,
                 env, stream, download, client, bulk, auth, listing>>

BackupNext ==
  \/ \E r \in Runs : BackupStart(r)
  \/ \E r \in Runs, ok \in BOOLEAN : BackupListed(r, ok)
  \/ \E r \in Runs, removed \in BOOLEAN : BackupDeleted(r, removed)
  \/ \E r \in Runs, ok \in BOOLEAN : BackupUploaded(r, ok)
  \/ \E r \in Runs : BackupThrew(r)

BackupSpec == BackupInit /\ [][BackupNext]_vars

\* ---------------------------------------------------------- /api middleware
\* Every route of the server is mounted under /api; the middleware runs first
\* and calls the handler in the same turn.
Credentials == {Undefined, "", "wrong", "secret"}

Falsy(v) == v \in {Undefined, ""}

\* a || b
Or(a, b) == IF Falsy(a) THEN b ELSE a

\* a request with no credentials at all is let through
Unauthorized_lax(API_SECRET, secret) == ~Falsy(API_SECRET) /\ ~Falsy(secret) /\ secret # API_SECRET

\* API_SECRET && secret !== API_SECRET
Unauthorized(API_SECRET, secret) == ~Falsy(API_SECRET) /\ secret # API_SECRET

AuthInit ==
  /\ foreignKeys = FALSE
  /\ files = [id \in FileIds |-> NoFile]
  /\ chunks = <<>>
  /\ scheduled = {}
  /\ reqs = [r \in Reqs |-> NoReq]
  /\ nextMsg = 1
  /\ last = Resp(0, FALSE)
  /\ env = Env("backup")
  /\ stream = NoStream
  /\ download = NoDownload
  /\ client = NoClient
  /\ bulk = NoBulk
  /\ backups = NoBackup
  /\ auth \in {[NoAuth EXCEPT !.API_SECRET = s] : s \in {Undefined, "", "secret"}}
  /\ listing = NoListing

\* the middleware answers 401 and does not call next()
Denied(header, token) ==
  /\ auth.served < MaxRequests
  /\ Unauthorized(auth.API_SECRET, Or(header, token))
  /\ auth' = [auth EXCEPT !.header = header, !.token = token, !.code = 401, !.served = @ + 1]
  /\ UNCHANGED <<foreignKeys, files, chunks, scheduled, reqs, nextMsg, last,
                 env, stream, download, client, bulk, backups, listing>>

\* the middleware calls next(): the route's handler runs
Admitted(header, token) ==
  /\ auth.served < MaxRequests
  /\ ~Unauthorized(auth.API_SECRET, Or(header, token))
  /\ auth' = [auth EXCEPT !.header = header, !.token = token, !.code = 0, !.served = @ + 1]
  /\ UNCHANGED <<env, stream, download, client, bulk, backups, listing>>

AuthNext ==
  \/ \E header \in Credentials, token \in Credentials : Denied(header, token)
  \/ \E header \in Credentials, token \in Credentials, id \in FileIds, name \in Names, size \in Sizes :
       Admitted(header, token) /\ InitFile(id, name, size)
  \/ \E header \in Credentials, token \in Credentials, r \in Reqs, id \in FileIds,
        h \in ChunkHeaders, len \in BodyLens :
       Admitted(header, token) /\ ChunkRecv(r, id, h, NoHeader, len)
  \/ \E r \in Reqs : ChunkCheck(r) /\ UNCHANGED others
  \/ \E r \in Reqs : ChunkUploaded(r) /\ UNCHANGED others
  \/ \E r \in Reqs : ChunkUploadFailed(r) /\ UNCHANGED others
  \/ \E header \in Credentials, token \in Credentials, id \in FileIds, skipBackup \in BOOLEAN :
       Admitted(header, token) /\ Finalize(id, skipBackup)
  \/ \E header \in Credentials, token \in Credentials, id \in FileIds :
       Admitted(header, token) /\ Abort(id)
  \/ \E header \in Credentials, token \in Credentials, id \in FileIds :
       Admitted(header, token) /\ Delete(id)

AuthSpec == AuthInit /\ [][AuthNext]_vars

\* ------------------------------------------------------------- GET /files
\* The files table with its created_at column, and one list request. The
\* limit and offset parameters are decimal numbers or not sent.
ListIds == {"a", "b", "c"}
NoParam == -1073741823                  \* query parameter not sent
PageParams == {NoParam} \cup (-1..MaxPage)
DefaultLimit == 50

\* parseInt(c.req.query(...) || fallback)
ParseParam(param, fallback) == IF param = NoParam THEN fallback ELSE param

\* WHERE f.status = ?
Matching(status) == {id \in ListIds : files[id].status = status}

\* ORDER BY f.created_at DESC: rows of equal created_at come in any order
ByCreatedDesc(status) ==
  {o \in Orders(Matching(status)) :
     \A i, j \in DOMAIN o : i < j => files[o[i]].created_at >= files[o[j]].created_at}

\* LIMIT ? OFFSET ?: a negative limit is no limit, a negative offset is none
LimitOffset(rows, pageLimit, pageOffset) ==
  LET first == IF pageOffset < 0 THEN 1 ELSE pageOffset + 1
      last_ == IF pageLimit < 0 THEN Len(rows) ELSE Min(Len(rows), first + pageLimit - 1)
  IN  SubSeq(rows, first, last_)

ListInit ==
  /\ foreignKeys = FALSE
  /\ files \in [ListIds -> [status : {"absent", "active", "trashed"}, name : {"n"},
                            size : {0}, created_at : 1..MaxCreated]]
  /\ chunks = <<>>
  /\ scheduled = {}
  /\ reqs = [r \in Reqs |-> NoReq]
  /\ nextMsg = 1
  /\ last = Resp(0, FALSE)
  /\ env = Env("backup")
  /\ stream = NoStream
  /\ download = NoDownload
  /\ client = NoClient
  /\ bulk = NoBulk
  /\ backups = NoBackup
  /\ auth = NoAuth
  /\ listing = NoListing

\* GET /files?status=&limit=&offset=
ListFiles(statusParam, limitParam, offsetParam, rows) ==
  LET pageLimit == ParseParam(limitParam, DefaultLimit)
      pageOffset == ParseParam(offsetParam, 0)
      status == IF statusParam = "" THEN "active" ELSE statusParam
  IN  /\ listing.pc = "idle"
      /\ rows \in ByCreatedDesc(status)
      /\ listing' = [pc |-> "done", status |-> status, limit |-> pageLimit, offset |-> pageOffset,
                     items |-> LimitOffset(rows, pageLimit, pageOffset),
                     total |-> Cardinality(Matching(status))]
      /\ UNCHANGED <<foreignKeys, files, chunks, scheduled, reqs, nextMsg, last,
                     env, stream, download, client, bulk, backups, auth>>

ListNext ==
  \E statusParam \in {"", "active", "trashed"}, limitParam \in PageParams, offsetParam \in PageParams,
     rows \in UNION {ByCreatedDesc(st) : st \in {"active", "trashed"}} :
    ListFiles(statusParam, limitParam, offsetParam, rows)

ListSpec == ListInit /\ [][ListNext]_vars

\* ------------------------------------------------------- per-chunk download
\* GET /download/:id?index=n: one chunk is proxied; an expired url is refreshed
\* once before the upstream fetch.
ProxyIndexes == (0..MaxChunks) \cup {NaN}         \* parseInt(chunkIndexStr, 10)

\* chunks.find((ch) => ch.idx === idx): the positions of the first match
find(rows, idx) == {k \in DOMAIN rows : rows[k].idx = idx /\ \A j \in 1..(k - 1) : rows[j].idx # idx}

ProxyRefused(code) ==
  [pc |-> "done", code |-> code, chunk |-> NoChunk, cdnUrl |-> "", contentLength |-> 0,
   calls |-> <<>>]

\* the handler up to its first await: the refresh call when the stored url
\* counts as expired, else the upstream fetch
ProxyRequest(id, idx) ==
  LET rows == OrderByIdx(ChunksOf(id))
  IN  /\ download.pc = "idle"
      /\ download' =
           IF files[id].status = "absent" \/ Len(rows) = 0 THEN ProxyRefused(404)
           ELSE IF find(rows, idx) = {} THEN ProxyRefused(404)
           ELSE LET chunk == rows[CHOOSE k \in find(rows, idx) : TRUE]
                IN  [pc |-> IF isExpiredForDownload(chunk.url) THEN "refresh" ELSE "fetch",
                     code |-> 0, chunk |-> chunk, cdnUrl |-> chunk.url, contentLength |-> 0,
                     calls |-> <<>>]
      /\ UNCHANGED <<foreignKeys, files, chunks, scheduled, reqs, nextMsg, last,
                     env, stream, client, bulk, backups, auth, listing>>

\* the refresh is over: a url it got is stored (a throw skips the update, the
\* url the bulk refresh left alone is written back as it is); the upstream
\* fetch follows in every case
ProxyRefreshed(outcome) ==
  LET cdnUrl == IF outcome \in {"bulk", "jit"} THEN FreshUrl ELSE download.cdnUrl
  IN  /\ download.pc = "refresh"
      /\ chunks' = IF outcome \in {"bulk", "jit"}
                     THEN SetUrl(download.chunk.messageId, cdnUrl) ELSE chunks
      /\ download' = [download EXCEPT !.pc = "fetch", !.cdnUrl = cdnUrl,
                                      !.calls = @ \o RefreshCalls(outcome)]
      /\ UNCHANGED <<foreignKeys, files, scheduled, reqs, nextMsg, last,
                     env, stream, client, bulk, backups, auth, listing>>

\* the upstream fetch is over: the body is passed on with the chunk's size
\* as Content-Length, a non-2xx answer gives 502, a throw (network error,
\* timeout) gives 500
ProxyFetched(outcome) ==
  /\ download.pc = "fetch"
  /\ download' = [download EXCEPT
       !.pc = "done",
       !.code = IF outcome = "ok" THEN 200 ELSE IF outcome = "error" THEN 500 ELSE 502,
       !.contentLength = IF outcome = "ok" THEN download.chunk.size ELSE 0]
  /\ UNCHANGED <<foreignKeys, files, chunks, scheduled, reqs, nextMsg, last,
                 env, stream, client, bulk, backups, auth, listing>>

ProxyNext ==
  \/ \E id \in FileIds, idx \in ProxyIndexes : ProxyRequest(id, idx)
  \/ \E outcome \in RefreshOutcomes : ProxyRefreshed(outcome)
  \/ \E outcome \in FetchOutcomes : ProxyFetched(outcome)

ProxySpec == DownloadInit /\ [][ProxyNext]_vars

\* ---------------------------------------------------------- background work
\* Empty-Trash and Delete answer without waiting for the clean-up and the
\* backup they start: bulkDeleteFromDiscord(...).catch(...) and
\* backupDatabase().catch(...) run on while the response is sent.
TrashSizes == {1, 2, 6}                \* chunk rows of the trashed file

BackgroundInit ==
  /\ foreignKeys = FALSE
  /\ \E n \in TrashSizes, status \in {"active", "trashed"} :
       /\ files = [id \in FileIds |->
                     IF id = "a" THEN [status |-> status, name |-> "n", size |-> n] ELSE NoFile]
       /\ chunks = RowsOf([i \in 1..n |-> 1], FreshUrl)
  /\ scheduled = {}
  /\ reqs = [r \in Reqs |-> NoReq]
  /\ nextMsg = 1
  /\ last = Resp(0, FALSE)
  /\ env = Env("backup")
  /\ stream = NoStream
  /\ download = NoDownload
  /\ client = NoClient
  /\ bulk = NoBulk
  /\ backups = NoBackup
  /\ auth = NoAuth
  /\ listing = NoListing

\* every call a background routine waits for is answered or fails
BackgroundSettles ==
  \/ \E threw \in BOOLEAN : BulkSingleDone(threw)
  \/ \E outcome \in {"ok", "notOk", "throw"} : BulkCallAnswered(outcome)
  \/ \E id \in 1..6, threw \in BOOLEAN : BulkDeleteSettled(id, threw)
  \/ BulkPauseOver
  \/ \E r \in Runs, ok \in BOOLEAN : BackupListed(r, ok)
  \/ \E r \in Runs, removed \in BOOLEAN : BackupDeleted(r, removed)
  \/ \E r \in Runs, ok \in BOOLEAN : BackupUploaded(r, ok)
  \/ \E r \in Runs : BackupThrew(r)

BackgroundNext ==
  \/ EmptyTrash /\ UNCHANGED others
  \/ \E id \in FileIds : Delete(id) /\ UNCHANGED others
  \/ \E messageIds \in scheduled : BulkStart(Len(messageIds))
  \/ \E r \in Runs : last.backup /\ BackupStart(r)
  \/ BackgroundSettles

BackgroundSpec == BackgroundInit /\ [][BackgroundNext]_vars

BackgroundLive == BackgroundSpec /\ WF_vars(BackgroundSettles)

\* ------------------------------------------------- chunk uploads, any header
\* Chunk uploads for the pending file "a" with every kind of X-Chunk-Number
\* and Content-Range header, on top of the chunks an earlier part of the upload
\* has stored (all of one size, with or without chunk 0).
WideHeaders == {NoHeader} \cup (0..MaxChunkNo)
WideRanges == {NoHeader, NoMatch} \cup (0..MaxPos) \cup {CHUNK_SIZE, 2 * CHUNK_SIZE}
StoredSizes == {1, 2, 3, CHUNK_SIZE}

UploadInit ==
  /\ foreignKeys = FALSE
  /\ files = [id \in FileIds |-> IF id = "a" THEN [status |-> "pending", name |-> "n", size |-> 1]
                                      ELSE NoFile]
  /\ \E n \in 0..MaxChunks, c \in StoredSizes :
       \E rows \in {RowsOf([i \in 1..n |-> c], FreshUrl)} :
         chunks \in {rows} \cup (IF n > 0 THEN {Tail(rows)} ELSE {})
  /\ scheduled = {}
  /\ reqs = [r \in Reqs |-> NoReq]
  /\ nextMsg = MaxChunks + 1
  /\ last = Resp(0, FALSE)
  /\ env = Env("backup")
  /\ stream = NoStream
  /\ download = NoDownload
  /\ client = NoClient
  /\ bulk = NoBulk
  /\ backups = NoBackup
  /\ auth = NoAuth
  /\ listing = NoListing

UploadNext ==
  \/ \E r \in Reqs, id \in FileIds, h \in WideHeaders, cr \in WideRanges, len \in SeqBodyLens :
       ChunkRecv(r, id, h, cr, len) /\ UNCHANGED others
  \/ \E r \in Reqs : ChunkCheck(r) /\ UNCHANGED others
  \/ \E r \in Reqs : ChunkUploaded(r) /\ UNCHANGED others
  \/ \E r \in Reqs : ChunkUploadFailed(r) /\ UNCHANGED others

UploadSpec == UploadInit /\ [][UploadNext]_vars

\* ------------------------------------------- uploads during a range stream
\* One range-stream request for the stored file "a" while chunks of the
\* pending file "b" are uploaded: the handlers share process.env.
ChannelInit ==
  /\ foreignKeys = FALSE
  /\ \E sizes \in {<<1>>, <<1, 2>>}, url \in UrlStates :
       /\ files = [id \in FileIds |->
                     IF id = "a"
                       THEN [status |-> "active", name |-> "n", size |-> SumSizes(RowsOf(sizes, url))]
                       ELSE [status |-> "pending", name |-> "n", size |-> 1]]
       /\ chunks = RowsOf(sizes, url)
  /\ scheduled = {}
  /\ reqs = [r \in Reqs |-> NoReq]
  /\ nextMsg = MaxChunks + 1
  /\ last = Resp(0, FALSE)
  /\ env \in {Env(""), Env("backup")}
  /\ stream = NoStream
  /\ download = NoDownload
  /\ client = NoClient
  /\ bulk = NoBulk
  /\ backups = NoBackup
  /\ auth = NoAuth
  /\ listing = NoListing

ChannelNext ==
  \/ \E range \in Ranges : StreamRequest("a", range)
  \/ \E outcome \in {"url", "none", "throw"} : StreamBulkRefresh(outcome)
  \/ \E ok \in BOOLEAN : StreamJit(ok)
  \/ \E ok \in BOOLEAN : StreamJitBackup(ok)
  \/ \E outcome \in {"ok", "notOk", "throw"} : StreamFetch(outcome)
  \/ \E r \in Reqs, h \in ChunkHeaders, len \in BodyLens :
       ChunkRecv(r, "b", h, NoHeader, len) /\ UNCHANGED others
  \/ \E r \in Reqs : ChunkCheck(r) /\ UNCHANGED others
  \/ \E r \in Reqs : ChunkUploaded(r) /\ UNCHANGED others
  \/ \E r \in Reqs : ChunkUploadFailed(r) /\ UNCHANGED others

ChannelSpec == ChannelInit /\ [][ChannelNext]_vars

\* --------------------------------------------------- successive range requests
\* A media client plays the stored file "a" of size S from byte 0: each request
\* asks for bytes next-(S-1), the answer's Content-Range tells where the next
\* request starts. The client keeps what each 206 delivered.
PlayerMaxRequests == MaxChunks + 2

\* what a 206 delivered: the global span of its Content-Range and the local
\* span of the chunk the upstream request asked for
Delivered ==
  [start |-> stream.start, end |-> stream.globalEnd, idx |-> stream.idx,
   localStart |-> stream.localStart, localEnd |-> stream.localEnd]

\* the first request, or the one that follows a 206 which has not reached the
\* last byte
PlayerRequest ==
  LET S == files["a"].size
      first == client.pc = "idle"
      next == IF first THEN 0 ELSE stream.globalEnd + 1
  IN  /\ \/ first /\ stream.pc = "idle" /\ S > 0
         \/ /\ client.pc = "playing"
            /\ stream.pc = "done" /\ stream.code = 206
            /\ next < S
            /\ Len(client.received) < PlayerMaxRequests
      /\ stream' = StreamStart("a", [sent |-> TRUE, start |-> next, end |-> S - 1])
      /\ client' = [pc |-> "playing",
                    received |-> IF first THEN <<>> ELSE Append(client.received, Delivered)]
      /\ UNCHANGED <<foreignKeys, files, chunks, scheduled, reqs, nextMsg, last,
                     env, download, bulk, backups, auth, listing>>

\* the 206 that ends with the last byte has arrived (an empty file needs no
\* request)
PlayerFinished ==
  LET S == files["a"].size
  IN  /\ \/ client.pc = "idle" /\ stream.pc = "idle" /\ S = 0
         \/ /\ client.pc = "playing"
            /\ stream.pc = "done" /\ stream.code = 206
            /\ stream.globalEnd + 1 >= S
      /\ client' = [pc |-> "finished",
                    received |-> IF client.pc = "idle" THEN <<>>
                                 ELSE Append(client.received, Delivered)]
      /\ UNCHANGED <<foreignKeys, files, chunks, scheduled, reqs, nextMsg, last,
                     env, stream, download, bulk, backups, auth, listing>>

PlayerNext ==
  \/ PlayerRequest
  \/ PlayerFinished
  \/ \E outcome \in {"url", "none", "throw"} : StreamBulkRefresh(outcome)
  \/ \E ok \in BOOLEAN : StreamJit(ok)
  \/ \E ok \in BOOLEAN : StreamJitBackup(ok)
  \/ \E outcome \in {"ok", "notOk", "throw"} : StreamFetch(outcome)

PlayerSpec == StreamInit /\ [][PlayerNext]_vars

\* ------------------------------------------------------------------ claims
HasRow(id) == files[id].status # "absent"

\* every message id some scheduled bulk delete names
ScheduledIds == UNION {{l[i] : i \in DOMAIN l} : l \in scheduled}

PendingRow(name, size) == [status |-> "pending", name |-> name, size |-> size]

\* C1: in every reachable state the chunk table holds at most one row per
\* (fileId, idx), also when two chunk uploads for the same pair overlap.
C1_UniqueFileIdx ==
  \A i, j \in DOMAIN chunks :
    (chunks[i].fileId = chunks[j].fileId /\ chunks[i].idx = chunks[j].idx) => i = j

\* C2: an Abort of a pending file and a chunk upload for it leave, once both
\* are over, no chunk row for the file and the uploaded record scheduled for
\* deletion. Stated per step: the Abort removes every chunk row of the file and
\* schedules their message ids; an upload that resolves after the Abort
\* schedules its own record, answers 404 and inserts nothing.
C2_AbortVersusChunkUpload ==
  [][ /\ \A id \in FileIds :
           (Abort(id) /\ files[id].status = "pending") =>
             /\ Len(ChunksOf(id)') = 0
             /\ \A i \in DOMAIN ChunksOf(id) : ChunksOf(id)[i].messageId \in ScheduledIds'
      /\ \A r \in Reqs :
           (ChunkUploaded(r) /\ files[reqs[r].fileId].status = "absent") =>
             /\ reqs'[r].code = 404
             /\ nextMsg \in ScheduledIds'
             /\ chunks' = chunks ]_vars

\* C3: in every reachable state the chunk sizes of an active or trashed file
\* add up to the file's recorded size.
C3_SizeIsSumOfChunks ==
  \A id \in FileIds :
    files[id].status \in {"active", "trashed"} => SumSizes(ChunksOf(id)) = files[id].size

\* C4: a file's status changes only along the edges of the lifecycle state
\* machine, each by its own operation.
C4_LifecycleEdges ==
  [][ \A id \in FileIds :
        files'[id].status # files[id].status =>
          LET from == files[id].status
              to == files'[id].status
          IN  \/ from = "absent" /\ to = "pending" /\ \E n \in Names, s \in Sizes : InitFile(id, n, s)
              \/ from = "pending" /\ to = "active" /\ \E sb \in BOOLEAN : Finalize(id, sb)
              \/ from = "active" /\ to = "trashed" /\ Delete(id)
              \/ from = "trashed" /\ to = "active" /\ Restore(id)
              \/ from = "trashed" /\ to = "absent" /\ (Delete(id) \/ EmptyTrash)
              \/ from = "pending" /\ to = "absent" /\ (Abort(id) \/ PurgePending) ]_vars

\* C5: a file row is destroyed (removed or replaced) only while trashed, by
\* Delete or Empty-Trash, or while pending, by Abort, re-Init or
\* Bulk-Purge-Pending.
C5_DestroyedOnlyTrashedOrPending ==
  [][ \A id \in FileIds :
        LET from == files[id].status
            removed == files'[id].status = "absent"
            replaced == \E n \in Names \ {""}, s \in Sizes :
                          InitFile(id, n, s) /\ files'[id] = PendingRow(n, s) /\ last'.code = 200
        IN  (HasRow(id) /\ (removed \/ replaced)) =>
              \/ from = "trashed" /\ removed /\ (Delete(id) \/ EmptyTrash)
              \/ from = "pending" /\ removed /\ (Abort(id) \/ PurgePending)
              \/ from = "pending" /\ replaced ]_vars

\* C6: Init with the id of an active file answers 409 and changes nothing; with
\* the id of a pending file it leaves one pending row with the new metadata and
\* no chunk rows for the id; with an unused id it inserts one pending row.
C6_InitCases ==
  [][ \A id \in FileIds, n \in Names \ {""}, s \in Sizes :
        InitFile(id, n, s) =>
          CASE files[id].status = "active" ->
                 last'.code = 409 /\ UNCHANGED <<files, chunks, scheduled>>
            [] files[id].status = "pending" ->
                 last'.code = 200 /\ files'[id] = PendingRow(n, s) /\ Len(ChunksOf(id)') = 0
            [] files[id].status = "absent" ->
                 /\ last'.code = 200
                 /\ files'[id] = PendingRow(n, s)
                 /\ \A o \in FileIds \ {id} : files'[o] = files[o]
            [] OTHER -> TRUE ]_vars

\* C7: Abort of an id whose file is active, trashed or absent changes no file
\* row and no chunk row and schedules no external deletion.
C7_AbortOnlyPending ==
  [][ \A id \in FileIds :
        (Abort(id) /\ files[id].status # "pending") => UNCHANGED <<files, chunks, scheduled>> ]_vars

\* C8: Abort of a pending file leaves no file row and no chunk row with that id
\* and schedules one bulk delete whose list is the message ids of the chunks
\* the file had just before.
C8_AbortRemovesAndSchedules ==
  [][ \A id \in FileIds :
        (Abort(id) /\ files[id].status = "pending") =>
          /\ files'[id].status = "absent"
          /\ Len(ChunksOf(id)') = 0
          /\ scheduled' = bulkDeleteFromDiscord(MessageIdsOf(id)) ]_vars

C10_DeleteThrice ==
  [][ \A id \in FileIds :
        Delete(id) =>
          CASE files[id].status = "active" ->
                 files'[id].status = "trashed" /\ UNCHANGED <<chunks, scheduled>>
            [] files[id].status = "trashed" ->
                 /\ files'[id].status = "absent"
                 /\ Len(ChunksOf(id)') = 0
                 /\ scheduled' = bulkDeleteFromDiscord(MessageIdsOf(id))
            [] files[id].status = "absent" ->
                 last'.code = 404 /\ UNCHANGED <<files, chunks, scheduled>>
            [] OTHER -> TRUE ]_vars

\* message ids of the chunk rows
RowMessageIds == {chunks[i].messageId : i \in DOMAIN chunks}

\* message ids the external store handed to uploads that were answered 200
StoredMessageIds == {reqs[r].msg : r \in {x \in DOMAIN reqs : reqs[x].code = 200}}

\* C11: when chunk uploads to a pending file follow one another, each
\* successful upload to (id, idx) leaves exactly one row for (id, idx), holding
\* the length of its body and the message id of its upload, and the records of
\* all successful uploads are either the record of a row or scheduled for
\* deletion, never both: of N uploads to one (id, idx) the last is the row and
\* exactly the N-1 earlier ones are scheduled.
C11_SequentialUploads ==
  [][ \A r \in SeqReqs :
        (ChunkUploaded(r) /\ reqs'[r].code = 200) =>
          LET q == reqs[r]
              rows == SelectSeq(chunks', LAMBDA c : c.fileId = q.fileId /\ c.idx = q.idx)
          IN  /\ Len(rows) = 1
              /\ rows[1].size = q.len
              /\ rows[1].messageId = nextMsg
              /\ Cardinality(RowMessageIds') = Len(chunks')
              /\ StoredMessageIds' = RowMessageIds' \cup ScheduledIds'
              /\ RowMessageIds' \cap ScheduledIds' = {} ]_vars

\* three uploads to one (id, idx), the last with a two-byte body: one row, the
\* two earlier records scheduled
C11_Witness ==
  /\ \A r \in DOMAIN reqs : reqs[r].pc = "done" /\ reqs[r].code = 200 /\ reqs[r].fileId = "a"
  /\ Cardinality(DOMAIN reqs) = NumReqs + 1
  /\ Len(chunks) = 1
  /\ chunks[1].size = MaxBody + 1
  /\ chunks[1].messageId = NumReqs + 1
  /\ ScheduledIds = 1..NumReqs

\* C12: in every reachable state every chunk row belongs to a file row: each
\* operation that removes a file row removes its chunk rows with it, and no
\* chunk row is inserted for an id without a file row.
C12_ChunkRowsHaveFile ==
  \A i \in DOMAIN chunks : files[chunks[i].fileId].status # "absent"

\* global position of the first byte of a chunk row: the sizes of the rows of
\* its file with a smaller idx
ChunkStart(row) ==
  SumSizes(SelectSeq(chunks, LAMBDA c : c.fileId = row.fileId /\ c.idx < row.idx))

\* the range stream has taken a request for a file whose chunk sizes add up to
\* its size, with a Range of 0 <= start <= end < size
C13_Premise ==
  /\ stream.pc # "idle"
  /\ files[stream.fileId].status # "absent"
  /\ SumSizes(ChunksOf(stream.fileId)) = files[stream.fileId].size
  /\ 0 <= stream.start /\ stream.start <= stream.end /\ stream.end < files[stream.fileId].size

\* C13: for a file of size S whose chunk sizes sum to S and a Range s-e with
\* 0 <= s <= e < S, the request is served from the one chunk holding s: with
\* g = min(e, last byte of that chunk) the response carries Content-Range
\* s-g/S and Content-Length g-s+1, the upstream request asks that chunk for
\* its local bytes (s - chunkStart)..(g - chunkStart), which lie inside it,
\* and the response is 206 once the upstream fetch answers ok.
C13_RangeWithinOneChunk ==
  C13_Premise =>
    \E i \in DOMAIN chunks :
      LET row == chunks[i]
          s == stream.start
          g == Min(stream.end, ChunkStart(row) + row.size - 1)
      IN  /\ row.fileId = stream.fileId
          /\ ChunkStart(row) <= s /\ s < ChunkStart(row) + row.size
          /\ stream.idx = row.idx /\ stream.messageId = row.messageId
          /\ stream.size = files[stream.fileId].size
          /\ stream.globalEnd = g
          /\ stream.actualLength = g - s + 1
          /\ stream.localStart = s - ChunkStart(row)
          /\ stream.localEnd = g - ChunkStart(row)
          /\ 0 <= stream.localStart /\ stream.localStart <= stream.localEnd
          /\ stream.localEnd < row.size
          /\ stream.code \in {0, 206, 500, 502}
          /\ stream.upstream = "ok" => stream.code = 206

\* a 206 for a range that starts inside a chunk and ends beyond it, served
\* after a refresh
C13_Witness ==
  /\ C13_Premise
  /\ stream.code = 206
  /\ stream.localStart > 0
  /\ stream.globalEnd < stream.end
  /\ Len(stream.calls) > 1

\* the request of the example: 20971520 bytes in chunks of 8388608, 8388608
\* and 4194304 bytes, Range: bytes=9000000-11000000
C14_Premise ==
  /\ stream.pc # "idle"
  /\ files[stream.fileId].status # "absent"
  /\ files[stream.fileId].size = 20971520
  /\ Len(ChunksOf(stream.fileId)) = 3
  /\ \A i \in DOMAIN chunks :
       chunks[i].size = (IF chunks[i].idx = 2 THEN 4194304 ELSE 8388608)
  /\ stream.start = 9000000
  /\ stream.end = 11000000

\* C14, as stated: that request is served from chunk 1 up to its last byte,
\* 206 with Content-Range: bytes 9000000-16777215/20971520 and Content-Length
\* 7777216.
C14_Example ==
  C14_Premise =>
    /\ stream.idx = 1
    /\ stream.start = 9000000 /\ stream.globalEnd = 16777215 /\ stream.size = 20971520
    /\ stream.actualLength = 7777216
    /\ stream.code \in {0, 206, 500, 502}
    /\ stream.upstream = "ok" => stream.code = 206

\* C14, amended: byte 11000000 lies inside chunk 1 (bytes 8388608..16777215),
\* so the request is served as asked: 206 with Content-Range: bytes
\* 9000000-11000000/20971520 and Content-Length 2000001, fetched from chunk 1
\* as its local bytes 611392..2611392.
C14_ExampleAsServed ==
  C14_Premise =>
    /\ stream.idx = 1
    /\ stream.start = 9000000 /\ stream.globalEnd = 11000000 /\ stream.size = 20971520
    /\ stream.actualLength = 2000001
    /\ stream.localStart = 611392 /\ stream.localEnd = 2611392
    /\ stream.code \in {0, 206, 500, 502}
    /\ stream.upstream = "ok" => stream.code = 206

C14_Witness == C14_Premise /\ stream.code = 206

\* C15: a range-stream request whose start byte lies in no chunk (it is no
\* number, or at or beyond the sum of the chunk sizes, which is 0 for a file
\* without chunks) is answered 416 at once: no refresh, no upstream fetch, no
\* change of the index; a request for an id without a file row is answered 404
\* the same way. An answered request does nothing more.
C15_UnsatisfiableRange ==
  [][ /\ (stream.pc = "idle" /\ stream'.pc # "idle") =>
           LET id == stream'.fileId
               refused(code) == /\ stream'.pc = "done" /\ stream'.code = code
                                /\ stream'.calls = <<>> /\ stream'.upstream = ""
                                /\ UNCHANGED <<files, chunks, env>>
           IN  /\ files[id].status = "absent" => refused(404)
               /\ (/\ files[id].status # "absent"
                   /\ \/ stream'.start = NaN
                      \/ stream'.start >= SumSizes(ChunksOf(id))) => refused(416)
      /\ stream.pc = "done" => stream' = stream ]_vars

\* a 416 for the byte right after the last chunk of a file whose urls are expired
C15_Witness ==
  /\ stream.pc = "done" /\ stream.code = 416
  /\ Len(chunks) > 0
  /\ stream.start = SumSizes(ChunksOf(stream.fileId))
  /\ \A i \in DOMAIN chunks : isExpired(chunks[i].url)

\* the chunk rows of file "a" a download from start_chunk = K is to deliver
RowsFrom(K) == SelectSeq(chunks, LAMBDA c : c.fileId = "a" /\ c.idx >= K)

\* a download that was given a number as start_chunk and closed its body
DownloadCompleted ==
  download.pc = "closed" /\ download.code = 200 /\ download.startChunkIndex # NaN

\* C16: a full-file download from start_chunk = K that completes has written
\* the bodies of exactly the chunks with idx >= K, each once, in strictly
\* ascending idx order, whatever the order in which the fetches completed.
C16_WritesFromStartChunkInOrder ==
  DownloadCompleted =>
    LET written == download.written
        rows == RowsFrom(download.startChunkIndex)
    IN  /\ \A a, b \in DOMAIN written : a < b => written[a] < written[b]
        /\ {written[a] : a \in DOMAIN written} = {rows[i].idx : i \in DOMAIN rows}
        /\ Len(written) = Len(rows)

\* C17: the Content-Length of a full-file download from start_chunk = K is the
\* sum of the sizes of the chunks with idx >= K, which is the number of bytes
\* the completed download has written.
C17_ContentLengthFromStartChunk ==
  DownloadCompleted =>
    /\ download.contentLength = SumSizes(RowsFrom(download.startChunkIndex))
    /\ download.contentLength = download.bytes

\* C18: in every reachable state Discover-Chunks returns exactly the idx
\* values of the chunk rows stored for the id, in ascending order, whatever the
\* order the rows were inserted in.
C18_DiscoverAscending ==
  \A id \in FileIds :
    LET list == DiscoverChunks(id)
    IN  /\ {list[i] : i \in DOMAIN list} = {ChunksOf(id)[i].idx : i \in DOMAIN ChunksOf(id)}
        /\ Len(list) = Len(ChunksOf(id))
        /\ \A i, j \in DOMAIN list : i < j => list[i] <= list[j]

BatchesUpTo(k) == UNION {bulk.bulkCalls[j].batch : j \in 1..k}

\* how often an id was covered: by a bulk call answered 2xx, or by its own delete
Covered(id) ==
  Cardinality({j \in DOMAIN bulk.bulkCalls :
                 bulk.bulkCalls[j].outcome = "ok" /\ id \in bulk.bulkCalls[j].batch})
  + bulk.deletes[id]

\* the bulk calls whose batch is finished: all but the one being worked on
FinishedCalls ==
  {j \in DOMAIN bulk.bulkCalls : j < Len(bulk.bulkCalls) \/ bulk.pc = "done"}

\* C20: bulkDelete of n >= 2 ids issues its bulk calls over consecutive batches
\* of at most 100 ids that partition the list in order; a batch answered
\* non-2xx gets exactly one individual delete per id, never more than 5 in
\* flight, a batch answered 2xx gets none; so without network errors every id
\* is covered exactly once (150 ids, one failing batch: two bulk calls and 150
\* deletions).
C20_BulkDeleteBatches ==
  (bulk.pc # "idle" /\ bulk.n >= 2) =>
    /\ \A k \in DOMAIN bulk.bulkCalls :
         LET batch == bulk.bulkCalls[k].batch
         IN  /\ batch # {}
             /\ Cardinality(batch) <= 100
             /\ batch \cap BatchesUpTo(k - 1) = {}
             /\ BatchesUpTo(k) = 1..Cardinality(BatchesUpTo(k))
             /\ \A a \in BatchesUpTo(k - 1), b \in batch : a < b
    /\ bulk.pc = "done" => BatchesUpTo(Len(bulk.bulkCalls)) = 1..bulk.n
    /\ Cardinality(bulk.inFlight) <= 5
    /\ \A id \in 1..bulk.n :
         /\ bulk.deletes[id] <= 1
         /\ bulk.deletes[id] = 1 =>
              \E j \in DOMAIN bulk.bulkCalls :
                 id \in bulk.bulkCalls[j].batch /\ bulk.bulkCalls[j].outcome = "notOk"
    /\ \A j \in FinishedCalls : \A id \in bulk.bulkCalls[j].batch :
         bulk.deletes[id] = IF bulk.bulkCalls[j].outcome = "notOk" THEN 1 ELSE 0
    /\ (bulk.pc = "done" /\ ~bulk.networkError) =>
         /\ \A id \in 1..bulk.n : Covered(id) = 1
         /\ (bulk.n = 150 /\ Cardinality({j \in DOMAIN bulk.bulkCalls :
                                             bulk.bulkCalls[j].outcome = "notOk"}) = 1) =>
              /\ Len(bulk.bulkCalls) = 2
              /\ Cardinality({id \in 1..bulk.n : Covered(id) = 1}) = 150

\* 150 ids, the first batch refused and deleted one by one, the second taken
C20_Witness ==
  /\ bulk.pc = "done"
  /\ bulk.n = 150
  /\ ~bulk.networkError
  /\ Len(bulk.bulkCalls) = 2
  /\ bulk.bulkCalls[1].outcome = "notOk"
  /\ bulk.bulkCalls[2].outcome = "ok"
  /\ Cardinality({id \in 1..bulk.n : bulk.deletes[id] = 1}) = 100

\* no backupDatabase run is under way, and one has completed
BackupsQuiet ==
  /\ \A r \in Runs : backups.runs[r].pc \in {"idle", "done"}
  /\ \E r \in Runs : backups.runs[r].pc = "done"

\* C21: after any backup run completes the backup channel holds at most one
\* marker-prefixed message, also when several runs were under way together.
C21_OnlyNewestSnapshot ==
  BackupsQuiet => Cardinality(backups.channel) <= 1

\* a step in which a request arrives whose credentials are not the secret's
ArrivesWith(secret) ==
  /\ auth'.served = auth.served + 1
  /\ ~Falsy(auth.API_SECRET)
  /\ secret # auth.API_SECRET

\* answered 401 with no row changed, no external call and nothing scheduled
Refused ==
  /\ auth'.code = 401
  /\ UNCHANGED <<files, chunks, scheduled, reqs, nextMsg, last, backups, bulk, env>>

\* C22 as stated: with a secret configured, a request whose Authorization
\* header (or, when the header is absent, token query parameter) differs from
\* the secret is answered 401 before any handler runs.
C22_MismatchIs401 ==
  [][ArrivesWith(IF auth'.header = Undefined THEN auth'.token ELSE auth'.header) => Refused]_vars

\* C22, amended: the token query parameter is read when the header is absent
\* or empty; a request whose credential read this way differs from the secret
\* is answered 401 before any handler runs.
C22_MismatchIs401_EmptyHeader ==
  [][ArrivesWith(IF auth'.header \in {Undefined, ""} THEN auth'.token ELSE auth'.header) => Refused]_vars

\* a request with a wrong token and no header was refused while a pending
\* file with a stored chunk was there to be changed
C22_Witness ==
  /\ auth.code = 401
  /\ auth.header = Undefined
  /\ auth.token = "wrong"
  /\ chunks # <<>>

\* the files of the listed status created after, or not before, the given one
ListedAfter(id) ==
  {o \in Matching(listing.status) : files[o].created_at > files[id].created_at}
ListedNotBefore(id) ==
  {o \in Matching(listing.status) : files[o].created_at >= files[id].created_at}

\* C23: GET /files with status s, limit L and offset O returns at most L
\* items, all of status s, in descending order of creation time from position
\* O on, and a total that is the number of files of status s.
C23_ListPage ==
  listing.pc = "done" =>
    /\ Len(listing.items) <= listing.limit
    /\ \A i \in DOMAIN listing.items : files[listing.items[i]].status = listing.status
    /\ \A i, j \in DOMAIN listing.items :
         i < j => /\ listing.items[i] # listing.items[j]
                  /\ files[listing.items[i]].created_at >= files[listing.items[j]].created_at
    /\ \A i \in DOMAIN listing.items :
         /\ Cardinality(ListedAfter(listing.items[i])) <= listing.offset + i - 1
         /\ Cardinality(ListedNotBefore(listing.items[i])) >= listing.offset + i
    /\ listing.total = Cardinality(Matching(listing.status))

\* C24: Chunk-Upload writes nothing to the metadata index before its external
\* upload has completed successfully: a step of a chunk request that has no
\* message id yet inserts, updates and deletes no file row and no chunk row.
C24_NoWriteBeforeUpload ==
  [][\A r \in Reqs :
       (reqs'[r] # reqs[r] /\ reqs'[r].msg = NoMsg) => UNCHANGED <<files, chunks>>]_vars

InFlight == {k \in DOMAIN download.chunkPromises : download.chunkPromises[k].st # "null"}

\* C26: during a full-file download at most W = 2 chunk-fetch tasks are in
\* flight (started and not yet consumed by the writer), for any number of
\* chunks and any order of completion.
C26_WindowOfTwo ==
  download.pc \notin {"idle", "done"} => Cardinality(InFlight) <= 2

\* the first chunk of four is written, the next two are in flight
C26_Witness ==
  /\ download.pc = "writing"
  /\ Len(download.filtered) = 4
  /\ download.i = 1
  /\ InFlight = {2, 3}

\* C27: in a full-file download each chunk is fetched at most twice; a second
\* attempt refreshes the url first, expired or not; a 403 or 410 on the first
\* attempt is followed by a second attempt; when the second attempt fails as
\* well the stream does not complete and no later chunk is written.
C27_TwoAttempts ==
  download.pc \notin {"idle", "done"} =>
    \A k \in DOMAIN download.chunkPromises :
      LET p == download.chunkPromises[k]
      IN  /\ p.fetched <= 2
          /\ p.attempt <= 2
          /\ p.attempt = 2 => 2 \in p.refreshedAt
          /\ p.authExpired => p.attempt = 2
          /\ (p.authExpired /\ ~download.signal /\ p.st # "refresh") => p.fetched = 2
          /\ p.st = "rejected" => download.pc # "closed" /\ download.i < k

\* a chunk with a fresh url was fetched twice, both fetches failed, and the
\* stream was aborted with the chunk unwritten
C27_Witness ==
  /\ download.pc = "aborted"
  /\ ~download.signal
  /\ \E k \in DOMAIN download.chunkPromises :
       /\ download.chunkPromises[k].st = "rejected"
       /\ download.chunkPromises[k].fetched = 2
       /\ download.filtered[k].url = "fresh"
       /\ download.i = k - 1

\* the client's cancellation signal is set
Cancelled == download.pc \notin {"idle", "done"} /\ download.signal

\* with the signal set, a step writes no chunk body and starts no upstream fetch
NothingAfterCancel ==
  [][Cancelled =>
       /\ download'.written = download.written
       /\ \A k \in DOMAIN download.chunkPromises :
            download'.chunkPromises[k].fetched <= download.chunkPromises[k].fetched]_vars

CancelledBeforeLastWrite == Cancelled /\ Len(download.written) < Len(download.filtered)

C29_ExpiredMeansRefresh ==
  download.pc \notin {"idle", "done"} =>
    \A k \in DOMAIN download.chunkPromises :
      (download.chunkPromises[k].fetched >= 1 /\ download.filtered[k].url \in {"noex", "past"})
        => 1 \in download.chunkPromises[k].refreshedAt

\* C30: the refresh steps run in the order bulk refresh, JIT lookup on the
\* primary channel, JIT lookup on the secondary channel (if configured), and
\* a later step is tried exactly when every earlier one failed, threw or gave
\* no url: here for the refresh calls a step of the download made.
C30_RefreshOrder ==
  (download.pc \notin {"idle", "done"} /\ download.calls # <<>>) =>
    LET calls == download.calls
        failed(j) == j <= Len(calls) /\ calls[j].result # "url"
    IN  /\ calls[1].step = "bulk"
        /\ Len(calls) >= 2 <=> failed(1)
        /\ Len(calls) >= 2 => calls[2].step = "jit"
        /\ Len(calls) >= 3 <=> (failed(1) /\ failed(2) /\ env.backup # "")
        /\ Len(calls) >= 3 => calls[3].step = "jitBackup"
        /\ Len(calls) <= 3

\* the refresh of the per-chunk download ended with a url
ProxyRefreshSucceeded ==
  /\ Len(download.calls) > 0
  /\ download.calls[Len(download.calls)].result = "url"

\* C31: a per-chunk download of a chunk whose stored url is expired, whose
\* refresh and fetch succeed, makes one refresh (the bulk call, and the JIT
\* lookup only after a bulk call without a url); the refresh changes the url
\* of the chunk's row to the refreshed url and nothing else in the index.
C31_ProxyRefreshesOnce ==
  /\ [][\A outcome \in {"bulk", "jit"} :
          ProxyRefreshed(outcome) =>
            /\ Len(chunks') = Len(chunks)
            /\ \E i \in DOMAIN chunks :
                 /\ chunks[i].messageId = download.chunk.messageId
                 /\ chunks[i].idx = download.chunk.idx
                 /\ chunks'[i] = [chunks[i] EXCEPT !.url = download'.cdnUrl]
                 /\ \A j \in DOMAIN chunks : j # i => chunks'[j] = chunks[j]
            /\ files' = files]_vars
  /\ [](/\ download.pc = "done"
        /\ download.code = 200
        /\ isExpiredForDownload(download.chunk.url)
        /\ ProxyRefreshSucceeded
        => /\ download.calls \in {RefreshCalls("bulk"), RefreshCalls("jit")}
           /\ download.contentLength = download.chunk.size
           /\ \E i \in DOMAIN chunks :
                /\ chunks[i].messageId = download.chunk.messageId
                /\ chunks[i].url = download.cdnUrl
                /\ chunks[i].idx = download.chunk.idx
                /\ chunks[i].size = download.chunk.size)

C31_Witness ==
  /\ download.pc = "done"
  /\ download.code = 200
  /\ "chunk" \in DOMAIN download
  /\ download.chunk.url = "past"
  /\ download.calls = RefreshCalls("jit")
  /\ Len(chunks) >= 2

\* a background routine ended as a rejected promise
BackgroundRaised == bulk.pc = "raised" \/ \E r \in Runs : backups.runs[r].pc = "raised"

\* C32: bulkDeleteFromDiscord and backupDatabase end without raising,
\* whatever the upstream answers and whichever call throws; the handler that
\* started them answers 200 with its index change made, and no step of the
\* background work touches the answer or the index.
C32_BackgroundNeverRaises ==
  /\ []~BackgroundRaised
  /\ (bulk.pc # "idle") ~> (bulk.pc = "done")
  /\ \A r \in Runs : (backups.runs[r].pc # "idle") ~> (backups.runs[r].pc = "done")
  /\ [][EmptyTrash =>
          /\ last'.code = 200
          /\ \A id \in FileIds : files[id].status = "trashed"
                                   => files'[id].status = "absent" /\ Len(ChunksOf(id)') = 0]_vars
  /\ [][\A id \in FileIds : Delete(id) /\ files[id].status = "trashed" =>
          last'.code = 200 /\ files'[id].status = "absent"]_vars
  /\ [][BackgroundSettles => UNCHANGED <<files, chunks, last>>]_vars

C32_Witness ==
  /\ bulk.pc = "done"
  /\ bulk.networkError
  /\ backups.runs[1].pc = "done"
  /\ backups.channel = {}
  /\ last = Resp(200, TRUE)
  /\ files["a"].status = "absent"

\* the message ids in the chunk rows of the files in S
IdsOfRows(S) == {chunks[i].messageId : i \in {j \in DOMAIN chunks : chunks[j].fileId \in S}}

\* a step that removes the files in S with their chunk rows, schedules the
\* message ids of those rows in one list and leaves the rest of the index alone
RemovesExactly(S) ==
  /\ \A id \in FileIds : files'[id] = IF id \in S THEN NoFile ELSE files[id]
  /\ chunks' = SelectSeq(chunks, LAMBDA c : c.fileId \notin S)
  /\ IF IdsOfRows(S) = {} THEN scheduled' = scheduled
     ELSE \E l \in scheduled' :
            /\ {l[i] : i \in DOMAIN l} = IdsOfRows(S)
            /\ Len(l) = Cardinality(IdsOfRows(S))
            /\ scheduled' \ {l} = scheduled \ {l}

\* C33: Empty-Trash removes the trashed files and their chunk rows and
\* schedules the message ids of exactly those rows; Bulk-Purge-Pending does so
\* for the pending files; files of any other status and their chunk rows stay
\* as they are.
C33_SweepsExactlyOneStatus ==
  [][/\ EmptyTrash => RemovesExactly({id \in FileIds : files[id].status = "trashed"})
     /\ PurgePending => RemovesExactly({id \in FileIds : files[id].status = "pending"})]_vars

\* Empty-Trash has swept two trashed files with one chunk each in one list
C33_Witness ==
  /\ last = Resp(200, TRUE)
  /\ \A id \in FileIds : files[id].status = "absent"
  /\ chunks = <<>>
  /\ reqs[1].fileId # reqs[2].fileId
  /\ reqs[1].msg # NoMsg /\ reqs[2].msg # NoMsg
  /\ \E l \in scheduled : {l[i] : i \in DOMAIN l} = {reqs[1].msg, reqs[2].msg}

\* the first stored row of chunk 0 of the file, if any
Chunk0Rows(id) == SelectSeq(chunks, LAMBDA c : c.fileId = id /\ c.idx = 0)

\* C34: the chunk index is n - 1 for a header X-Chunk-Number: n, whatever the
\* Content-Range; without that header and with Content-Range bytes
\* start-end/total it is 0 when start = 0 or chunk 0 is not stored, else start
\* divided by the stored size of chunk 0, rounded to the nearest integer (so
\* k for start = k * c and size c); else 0.
C34_ResolvedIndex ==
  [][\A r \in Reqs, id \in FileIds, h \in WideHeaders, cr \in WideRanges, len \in SeqBodyLens :
       ChunkRecv(r, id, h, cr, len) =>
         LET idx == reqs'[r].idx
         IN  /\ h # NoHeader => idx = h - 1
             /\ h = NoHeader /\ cr \in {NoHeader, NoMatch} => idx = 0
             /\ h = NoHeader /\ cr >= 0 /\ (cr = 0 \/ Len(Chunk0Rows(id)) = 0) => idx = 0
             /\ h = NoHeader /\ cr > 0 /\ Len(Chunk0Rows(id)) > 0 =>
                  LET c == Chunk0Rows(id)[1].size
                  IN  /\ 2 * idx * c - c <= 2 * cr
                      /\ 2 * cr < 2 * idx * c + c
                      /\ \A k \in 0..MaxPos : cr = k * c => idx = k]_vars

\* a request whose index 2 comes from Content-Range bytes 2c-.../..., c being
\* the size of the stored chunks (the header gives MaxChunkNo - 1 at most)
C34_Witness ==
  /\ Len(chunks) > 0
  /\ chunks[1].idx = 0
  /\ chunks[1].size = CHUNK_SIZE
  /\ reqs[1].pc = "body"
  /\ reqs[1].fileId = "a"
  /\ reqs[1].idx = MaxChunkNo

\* C35: every chunk row has idx >= 0 and size >= 1, whatever X-Chunk-Number,
\* Content-Range and body the accepted requests carried; a request with an
\* empty body is answered 400 with no external upload and no index change.
C35_RowsWellFormed ==
  /\ [](\A i \in DOMAIN chunks : chunks[i].idx >= 0 /\ chunks[i].size >= 1)
  /\ [][\A r \in Reqs : ChunkCheck(r) /\ reqs[r].len = 0 =>
          /\ reqs'[r].pc = "done" /\ reqs'[r].code = 400 /\ reqs'[r].msg = NoMsg
          /\ UNCHANGED <<files, chunks, scheduled, nextMsg>>]_vars

\* C36: a Chunk-Upload whose external upload fails is answered with an error
\* and leaves the index and the external store as they were: the chunk another
\* request has stored is still in the index and its message is not scheduled
\* for deletion.
C36_FailedUploadChangesNothing ==
  \A r1, r2 \in Reqs :
    /\ r1 # r2
    /\ reqs[r1].pc = "done" /\ reqs[r1].code = 200
    /\ reqs[r2].pc = "done" /\ reqs[r2].code = 500
    => /\ reqs[r2].msg = NoMsg
       /\ reqs[r1].msg \in RowMessageIds
       /\ reqs[r1].msg \notin ScheduledIds

\* C37: every chunk row carries the configured primary channel, the one its
\* blob was uploaded to, however chunk uploads interleave with a range-stream
\* request that overwrites the channel variable for its backup lookup; and
\* once the range-stream request is over the variable holds the configured
\* channel again, also after a backup lookup that failed.
C37_ChannelIsPrimary ==
  /\ \A i \in DOMAIN chunks : chunks[i].channelId = Env("").channel
  /\ stream.pc = "done" => env.channel = Env("").channel

\* C38: every 206 of the range stream has Content-Length >= 1 and a
\* Content-Range start-end/size with start <= end, whatever Range header
\* located the chunk: also one whose end lies before its start and one whose
\* end is at or beyond the size of the file.
C38_NonEmpty206 ==
  stream.pc = "done" /\ stream.code = 206 =>
    /\ stream.actualLength >= 1
    /\ stream.start <= stream.globalEnd
    /\ stream.globalEnd # NaN

\* the k-th chunk row of file "a" in idx order, as one full delivery
WholeChunk(k) ==
  LET row == OrderByIdx(ChunksOf("a"))[k]
  IN  [start |-> ChunkStart(row), end |-> ChunkStart(row) + row.size - 1, idx |-> row.idx,
       localStart |-> 0, localEnd |-> row.size - 1]

\* C39: for a file of size S whose chunk sizes sum to S, the client that
\* starts at byte 0 and asks again from the last Content-Range end + 1 up to
\* S - 1 gets with its k-th request exactly the k-th chunk, so the bytes of
\* [0, S) once each and in order, and is through after as many requests as the
\* file has chunks.
C39_OneChunkPerRequest ==
  client.pc \in {"playing", "finished"} /\ SumSizes(ChunksOf("a")) = files["a"].size =>
    /\ Len(client.received) <= Len(ChunksOf("a"))
    /\ \A k \in DOMAIN client.received : client.received[k] = WholeChunk(k)
    /\ client.pc = "finished" => Len(client.received) = Len(ChunksOf("a"))
    /\ stream.pc = "done" /\ stream.code = 206 /\ Len(client.received) < Len(ChunksOf("a"))
         => Delivered = WholeChunk(Len(client.received) + 1)

C39_Witness ==
  /\ client.pc = "finished"
  /\ SumSizes(ChunksOf("a")) = files["a"].size
  /\ Len(client.received) = 3
  /\ client.received[3].end = files["a"].size - 1

\* the tasks of the pool that have been started and have not settled
PoolWaitsFor == {index \in DOMAIN client.tasks : client.tasks[index].st \in {"started", "sent"}}

\* C40: runWithConcurrency settles for every list of tasks that settle, the
\* empty list too (a pool that has not settled is waiting for a task that has
\* been started), runs at most CONCURRENCY tasks at a time and starts none
\* after a task has failed; so the upload of a file of zero chunks gets to
\* Finalize.
C40_PoolSettles ==
  /\ [](client.pc = "upload" => PoolWaitsFor # {})
  /\ [](client.pc \in {"upload", "failed", "finalize", "done"} =>
          /\ Cardinality(PoolWaitsFor) <= CONCURRENCY
          /\ client.running <= CONCURRENCY)
  /\ [][client.pc = "failed" =>
          \A index \in DOMAIN client.tasks :
            client.tasks[index].st = "new" => client'.tasks[index].st = "new"]_vars

============================================================================
